---- MODULE Spec2Model ----
(***************************************************************************)
(* Bookmark cleanup manager: the document tree and its mutation handlers,  *)
(* and the bounded-concurrency link scan of src/src/App.tsx.               *)
(*                                                                         *)
(* Strings are sequences of one-character strings, so that trim() is       *)
(* computed and not assumed.  An optional value (T | undefined | null) is  *)
(* a sequence of length 0 or 1.                                            *)
(***************************************************************************)
EXTENDS Integers, Sequences, FiniteSets, TLC

\* ------------------------------------------------------------------------
\* Bounds of the model
\* ------------------------------------------------------------------------
\* nodes below the root of an imported file (tree specification)
MaxNodes == 3
\* sources of one merge
MaxSources == 2
\* scans started in one behaviour
MaxScans == 2
MaxAnswered == 2
MaxLinks == 5
\* requests the check service handles in one behaviour
MaxChecks == 1
\* pairs of like-named folders in the largest file of the suggestion
\* specification
MaxPairs == 4
\* suggestion cards whose buttons are used, counted from the top
MaxCards == 2

\* ------------------------------------------------------------------------
\* Strings
\* ------------------------------------------------------------------------
RECURSIVE trimStart(_)
trimStart(s) ==
    IF s = <<>> THEN <<>>
    ELSE IF Head(s) = " " THEN trimStart(Tail(s)) ELSE s

RECURSIVE trimEnd(_)
trimEnd(s) ==
    IF s = <<>> THEN <<>>
    ELSE IF s[Len(s)] = " " THEN trimEnd(SubSeq(s, 1, Len(s) - 1)) ELSE s

\* String.prototype.trim
trim(s) == trimEnd(trimStart(s))

Untitled == <<"U">>

\* cleanText: value?.trim() || 'Untitled'   (value is an optional string)
cleanText(value) ==
    IF value = <<>> THEN Untitled
    ELSE IF trim(value[1]) = <<>> THEN Untitled ELSE trim(value[1])

\* ------------------------------------------------------------------------
\* Nodes.  Bookmark: [id, type, title, url]; folder: [id, type, title,
\* children].  A url is the empty string, or a string that new URL() parses
\* (host, pathname), or a string that it rejects (raw).
\* ------------------------------------------------------------------------
EmptyUrl == [kind |-> "empty"]
HttpUrl(host, pathname) == [kind |-> "url", host |-> host, pathname |-> pathname]
RawUrl(raw) == [kind |-> "raw", raw |-> raw]

BookmarkItem(id, title, url) ==
    [id |-> id, type |-> "bookmark", title |-> title, url |-> url]

FolderItem(id, title, children) ==
    [id |-> id, type |-> "folder", title |-> title, children |-> children]

\* { ...folder, children }
WithChildren(folder, children) == [folder EXCEPT !.children = children]

\* ------------------------------------------------------------------------
\* parseBookmarkHtml.  The DOM of the file is a record [hasDl, items]: items
\* is the list of the DT elements of the first DL, each [tag |-> "H3", text,
\* items] (a folder with its nested list) or [tag |-> "A", text, href].
\* ------------------------------------------------------------------------
IdTable ==
    <<"node-0", "node-1", "node-2", "node-3", "node-4", "node-5",
      "node-6", "node-7", "node-8", "node-9", "node-10", "node-11",
      "node-12", "node-13", "node-14", "node-15", "node-16", "node-17",
      "node-18", "node-19", "node-20", "node-21", "node-22", "node-23",
      "node-24", "node-25", "node-26", "node-27", "node-28", "node-29",
      "node-30", "node-31", "node-32", "node-33", "node-34", "node-35",
      "node-36", "node-37", "node-38", "node-39", "node-40", "node-41",
      "node-42", "node-43", "node-44", "node-45", "node-46", "node-47",
      "node-48", "node-49", "node-50", "node-51", "node-52", "node-53",
      "node-54", "node-55", "node-56", "node-57", "node-58", "node-59">>

\* nextId: `node-${counter++}`
nextId(counter) == IdTable[counter + 1]

\* parseDl threads the counter: the result is [nodes, counter].
RECURSIVE parseDl(_, _)
parseDl(items, counter) ==
    IF items = <<>> THEN [nodes |-> <<>>, counter |-> counter]
    ELSE
        LET element == Head(items)
            first ==
                IF element.tag = "H3"
                THEN LET inner == parseDl(element.items, counter + 1)
                     IN  [node |-> FolderItem(nextId(counter),
                                              cleanText(element.text),
                                              inner.nodes),
                          counter |-> inner.counter]
                ELSE [node |-> BookmarkItem(nextId(counter),
                                            cleanText(element.text),
                                            element.href),
                      counter |-> counter + 1]
            rest == parseDl(Tail(items), first.counter)
        IN  [nodes |-> <<first.node>> \o rest.nodes, counter |-> rest.counter]

RootTitle == <<"R">>

\* the result is optional: <<>> stands for the thrown Error
parseBookmarkHtml(html) ==
    IF ~html.hasDl THEN <<>>
    ELSE <<FolderItem("root", RootTitle, parseDl(html.items, 0).nodes)>>

\* ------------------------------------------------------------------------
\* Tree helpers
\* ------------------------------------------------------------------------
RECURSIVE flattenWalk(_)
flattenWalk(children) ==
    IF children = <<>> THEN <<>>
    ELSE LET child == Head(children)
         IN  (IF child.type = "folder" THEN flattenWalk(child.children)
              ELSE <<[id |-> child.id, title |-> child.title, url |-> child.url]>>)
             \o flattenWalk(Tail(children))

\* flattenBookmarks: the bookmarks in document order
flattenBookmarks(root) == flattenWalk(root.children)

RECURSIVE removeBookmarksWalk(_, _)
removeBookmarksWalk(children, idsToRemove) ==
    IF children = <<>> THEN <<>>
    ELSE LET child == Head(children)
             rest == removeBookmarksWalk(Tail(children), idsToRemove)
         IN  IF child.type = "bookmark"
             THEN IF child.id \notin idsToRemove THEN <<child>> \o rest ELSE rest
             ELSE <<WithChildren(child,
                       removeBookmarksWalk(child.children, idsToRemove))>> \o rest

\* the filter on the children of the folder alone
removeBookmarksFromTop(folder, idsToRemove) ==
    LET Kept(child) == child.type # "bookmark" \/ child.id \notin idsToRemove
    IN  WithChildren(folder, SelectSeq(folder.children, Kept))

removeBookmarksFromTree(folder, idsToRemove) ==
    WithChildren(folder, removeBookmarksWalk(folder.children, idsToRemove))

\* appendChildrenToFolder: [folder, updated]
RECURSIVE appendChildrenToFolder(_, _, _)
RECURSIVE appendChildrenMap(_, _, _)
appendChildrenMap(list, targetId, children) ==
    IF list = <<>> THEN [list |-> <<>>, updated |-> FALSE]
    ELSE LET child == Head(list)
         IN  IF child.type # "folder"
             THEN LET rest == appendChildrenMap(Tail(list), targetId, children)
                  IN  [list |-> <<child>> \o rest.list, updated |-> rest.updated]
             ELSE LET result == appendChildrenToFolder(child, targetId, children)
                  IN  IF result.updated
                      THEN [list |-> <<result.folder>> \o Tail(list),
                            updated |-> TRUE]
                      ELSE LET rest == appendChildrenMap(Tail(list), targetId,
                                                         children)
                           IN  [list |-> <<child>> \o rest.list,
                                updated |-> rest.updated]

\* mutant of appendChildrenToFolder: the children are put before the
\* target's own
appendChildrenInFront(folder, targetId, children) ==
    IF folder.id = targetId
    THEN [folder |-> WithChildren(folder, children \o folder.children),
          updated |-> TRUE]
    ELSE LET m == appendChildrenMap(folder.children, targetId, children)
         IN  [folder |-> WithChildren(folder, m.list), updated |-> m.updated]

appendChildrenToFolder(folder, targetId, children) ==
    IF folder.id = targetId
    THEN [folder |-> WithChildren(folder, folder.children \o children),
          updated |-> TRUE]
    ELSE LET m == appendChildrenMap(folder.children, targetId, children)
         IN  [folder |-> WithChildren(folder, m.list), updated |-> m.updated]

\* removeNodeById: [folder, removed], removed optional
RECURSIVE removeNodeById(_, _)
RECURSIVE removeNodeReduce(_, _)
removeNodeReduce(list, id) ==
    IF list = <<>> THEN [acc |-> <<>>, removed |-> <<>>]
    ELSE LET child == Head(list)
         IN  IF child.id = id
             THEN [acc |-> Tail(list), removed |-> <<child>>]
             ELSE LET result == IF child.type = "folder"
                                THEN removeNodeById(child, id)
                                ELSE [folder |-> child, removed |-> <<>>]
                  IN  IF result.removed # <<>>
                      THEN [acc |-> <<result.folder>> \o Tail(list),
                            removed |-> result.removed]
                      ELSE LET rest == removeNodeReduce(Tail(list), id)
                           IN  [acc |-> <<child>> \o rest.acc,
                                removed |-> rest.removed]

\* mutant of removeNodeById: the node is reported removed but stays in place
removeNodeByIdKept(folder, id) ==
    [folder |-> folder, removed |-> removeNodeReduce(folder.children, id).removed]

\* the children left behind put back in reverse
removeNodeByIdReversed(folder, id) ==
    LET r == removeNodeReduce(folder.children, id)
    IN  [folder |-> WithChildren(folder,
                        [i \in 1..Len(r.acc) |-> r.acc[Len(r.acc) + 1 - i]]),
         removed |-> r.removed]

removeNodeById(folder, id) ==
    LET r == removeNodeReduce(folder.children, id)
    IN  [folder |-> WithChildren(folder, r.acc), removed |-> r.removed]

\* Array.prototype.splice(index, 0, node)
Splice(list, index, node) ==
    SubSeq(list, 1, index) \o <<node>> \o SubSeq(list, index + 1, Len(list))

\* insertNodeAt: [folder, inserted]; index optional
RECURSIVE insertNodeAt(_, _, _, _)
RECURSIVE insertNodeMap(_, _, _, _)
insertNodeMap(list, parentId, node, index) ==
    IF list = <<>> THEN [list |-> <<>>, inserted |-> FALSE]
    ELSE LET child == Head(list)
         IN  IF child.type # "folder"
             THEN LET rest == insertNodeMap(Tail(list), parentId, node, index)
                  IN  [list |-> <<child>> \o rest.list, inserted |-> rest.inserted]
             ELSE LET result == insertNodeAt(child, parentId, node, index)
                  IN  IF result.inserted
                      THEN [list |-> <<result.folder>> \o Tail(list),
                            inserted |-> TRUE]
                      ELSE LET rest == insertNodeMap(Tail(list), parentId, node,
                                                     index)
                           IN  [list |-> <<child>> \o rest.list,
                                inserted |-> rest.inserted]

insertNodeAt(folder, parentId, node, index) ==
    IF folder.id = parentId
    THEN [folder |->
            WithChildren(folder,
                IF index = <<>> \/ index[1] < 0 \/ index[1] > Len(folder.children)
                THEN Append(folder.children, node)
                ELSE Splice(folder.children, index[1], node)),
          inserted |-> TRUE]
    ELSE LET m == insertNodeMap(folder.children, parentId, node, index)
         IN  [folder |-> WithChildren(folder, m.list), inserted |-> m.inserted]

\* findNodeLocation: optional [parentId, index (0-based), node]
RECURSIVE findNodeLocation(_, _)
RECURSIVE findNodeLoop(_, _, _)
findNodeLoop(folder, id, index) ==
    IF index >= Len(folder.children) THEN <<>>
    ELSE LET child == folder.children[index + 1]
         IN  IF child.id = id
             THEN <<[parentId |-> folder.id, index |-> index, node |-> child]>>
             ELSE LET result == IF child.type = "folder"
                                THEN findNodeLocation(child, id) ELSE <<>>
                  IN  IF result # <<>> THEN result
                      ELSE findNodeLoop(folder, id, index + 1)

findNodeLocation(folder, id) == findNodeLoop(folder, id, 0)

\* findPathIds: optional list of ids from the root to the target
RECURSIVE findPathIds(_, _, _)
RECURSIVE findPathLoop(_, _, _, _)
findPathLoop(folder, list, targetId, nextPath) ==
    IF list = <<>>
    THEN IF folder.id = targetId THEN <<nextPath>> ELSE <<>>
    ELSE LET child == Head(list)
         IN  IF child.id = targetId THEN <<Append(nextPath, child.id)>>
             ELSE LET result == IF child.type = "folder"
                                THEN findPathIds(child, targetId, nextPath)
                                ELSE <<>>
                  IN  IF result # <<>> THEN result
                      ELSE findPathLoop(folder, Tail(list), targetId, nextPath)

findPathIds(folder, targetId, path) ==
    findPathLoop(folder, folder.children, targetId, Append(path, folder.id))

RECURSIVE updateFolderTitle(_, _, _)
RECURSIVE updateTitleMap(_, _, _)
updateTitleMap(list, folderId, title) ==
    IF list = <<>> THEN <<>>
    ELSE LET child == Head(list)
         IN  <<IF child.type = "folder"
               THEN updateFolderTitle(child, folderId, title) ELSE child>>
             \o updateTitleMap(Tail(list), folderId, title)

\* the title set without the test of the id
updateFolderTitleAny(folder, folderId, title) == [folder EXCEPT !.title = title]

updateFolderTitle(folder, folderId, title) ==
    IF folder.id = folderId THEN [folder EXCEPT !.title = title]
    ELSE WithChildren(folder, updateTitleMap(folder.children, folderId, title))

Includes(list, x) == \E i \in 1..Len(list) : list[i] = x

\* ------------------------------------------------------------------------
\* Export.  The text is the list of its lines after the heading: [kind |->
\* "DL"] for <DL><p>, [kind |-> "/DL"] for </DL><p>, [kind |-> "H3", title]
\* and [kind |-> "A", href, title], the title and the href as written.
\* ------------------------------------------------------------------------
\* String.prototype.replace(/c/g, rep)
RECURSIVE replaceAll(_, _, _)
replaceAll(s, c, rep) ==
    IF s = <<>> THEN <<>>
    ELSE (IF Head(s) = c THEN rep ELSE <<Head(s)>>)
         \o replaceAll(Tail(s), c, rep)

EntityAmp == <<"&", "a", "m", "p", ";">>
EntityLt == <<"&", "l", "t", ";">>
EntityGt == <<"&", "g", "t", ";">>
EntityQuot == <<"&", "q", "u", "o", "t", ";">>
EntityApos == <<"&", "#", "3", "9", ";">>

\* the replacements after that of the ampersand
escapeBrackets(value) ==
    replaceAll(replaceAll(replaceAll(replaceAll(value,
        "<", EntityLt), ">", EntityGt), "\"", EntityQuot), "'", EntityApos)

\* the ampersand replaced last
escapeHtmlAmpLast(value) == replaceAll(escapeBrackets(value), "&", EntityAmp)

escapeHtml(value) == escapeBrackets(replaceAll(value, "&", EntityAmp))

\* escapeHtml(child.url || '') on the url of the model
escapeHref(url) ==
    IF url.kind = "empty" THEN url
    ELSE IF url.kind = "url"
    THEN HttpUrl(escapeHtml(url.host), escapeHtml(url.pathname))
    ELSE RawUrl(escapeHtml(url.raw))

RECURSIVE renderChildren(_)
renderFolder(folder) ==
    <<[kind |-> "H3", title |-> escapeHtml(folder.title)], [kind |-> "DL"]>>
    \o renderChildren(folder.children)
    \o <<[kind |-> "/DL"]>>

renderChildren(children) ==
    IF children = <<>> THEN <<>>
    ELSE (IF Head(children).type = "folder"
          THEN renderFolder(Head(children))
          ELSE <<[kind |-> "A", href |-> escapeHref(Head(children).url),
                  title |-> escapeHtml(Head(children).title)]>>)
         \o renderChildren(Tail(children))

buildBookmarkHtml(root) ==
    <<[kind |-> "DL"]>> \o renderChildren(root.children) \o <<[kind |-> "/DL"]>>

\* DOMParser: the character references of a text or an attribute value
IsPrefix(p, s) == Len(p) <= Len(s) /\ SubSeq(s, 1, Len(p)) = p

RECURSIVE decodeEntities(_)
decodeEntities(s) ==
    IF s = <<>> THEN <<>>
    ELSE IF IsPrefix(EntityAmp, s)
    THEN <<"&">> \o decodeEntities(SubSeq(s, Len(EntityAmp) + 1, Len(s)))
    ELSE IF IsPrefix(EntityLt, s)
    THEN <<"<">> \o decodeEntities(SubSeq(s, Len(EntityLt) + 1, Len(s)))
    ELSE IF IsPrefix(EntityGt, s)
    THEN <<">">> \o decodeEntities(SubSeq(s, Len(EntityGt) + 1, Len(s)))
    ELSE IF IsPrefix(EntityQuot, s)
    THEN <<"\"">> \o decodeEntities(SubSeq(s, Len(EntityQuot) + 1, Len(s)))
    ELSE IF IsPrefix(EntityApos, s)
    THEN <<"'">> \o decodeEntities(SubSeq(s, Len(EntityApos) + 1, Len(s)))
    ELSE <<Head(s)>> \o decodeEntities(Tail(s))

decodeHref(href) ==
    IF href.kind = "empty" THEN href
    ELSE IF href.kind = "url"
    THEN HttpUrl(decodeEntities(href.host), decodeEntities(href.pathname))
    ELSE RawUrl(decodeEntities(href.raw))

\* DOMParser: the DT elements of the DL whose lines start at position i, as
\* [items, next]; a DT stays open after its H3, so the DL that follows is its
\* child, and the DT that follows closes it
RECURSIVE domItems(_, _)
domItems(lines, i) ==
    IF i > Len(lines) THEN [items |-> <<>>, next |-> i]
    ELSE IF lines[i].kind = "/DL" THEN [items |-> <<>>, next |-> i + 1]
    ELSE IF lines[i].kind = "A"
    THEN LET rest == domItems(lines, i + 1)
         IN  [items |-> <<[tag |-> "A",
                           text |-> <<decodeEntities(lines[i].title)>>,
                           href |-> decodeHref(lines[i].href)]>> \o rest.items,
              next |-> rest.next]
    ELSE IF lines[i].kind = "H3"
    THEN LET inner == IF i < Len(lines) /\ lines[i + 1].kind = "DL"
                      THEN domItems(lines, i + 2)
                      ELSE [items |-> <<>>, next |-> i + 1]
             rest == domItems(lines, inner.next)
         IN  [items |-> <<[tag |-> "H3",
                           text |-> <<decodeEntities(lines[i].title)>>,
                           items |-> inner.items]>> \o rest.items,
              next |-> rest.next]
    ELSE domItems(lines, i + 1)

\* parser.parseFromString(html, 'text/html') on an exported text
parseFromString(lines) ==
    IF lines = <<>> \/ lines[1].kind # "DL"
    THEN [hasDl |-> FALSE, items |-> <<>>]
    ELSE [hasDl |-> TRUE, items |-> domItems(lines, 2).items]

\* ------------------------------------------------------------------------
\* Duplicate detection
\* ------------------------------------------------------------------------
\* String.prototype.toLowerCase on the alphabet of the model
LowerChar(c) ==
    CASE c = "X" -> "x"
      [] c = "Y" -> "y"
      [] c = "A" -> "a"
      [] c = "R" -> "r"
      [] c = "W" -> "w"
      [] c = "B" -> "b"
      [] OTHER -> c

toLowerCase(s) == [i \in 1..Len(s) |-> LowerChar(s[i])]

normalizeUrl(value) ==
    IF value.kind = "empty" THEN <<>>
    ELSE IF value.kind = "url"
    THEN LET pathname == IF value.pathname = <<>> THEN <<"/">> ELSE value.pathname
             stripped == IF Len(pathname) > 1 /\ pathname[Len(pathname)] = "/"
                         THEN SubSeq(pathname, 1, Len(pathname) - 1)
                         ELSE pathname
         IN  toLowerCase(value.host) \o stripped
    ELSE toLowerCase(trim(value.raw))

\* the Map of buildDuplicateGroups as a list of [key, items] in insertion order
RECURSIVE groupInsert(_, _, _)
groupInsert(groups, key, entry) ==
    IF groups = <<>> THEN <<[key |-> key, items |-> <<entry>>]>>
    ELSE IF Head(groups).key = key
    THEN <<[Head(groups) EXCEPT !.items = Append(@, entry)]>> \o Tail(groups)
    ELSE <<Head(groups)>> \o groupInsert(Tail(groups), key, entry)

RECURSIVE groupAll(_, _)
groupAll(items, groups) ==
    IF items = <<>> THEN groups
    ELSE LET item == Head(items)
             normalized == normalizeUrl(item.url)
         IN  IF item.url.kind = "empty" \/ normalized = <<>>
             THEN groupAll(Tail(items), groups)
             ELSE groupAll(Tail(items),
                           groupInsert(groups, normalized,
                               [id |-> item.id, title |-> item.title,
                                url |-> item.url, normalized |-> normalized]))

\* Array.prototype.filter
RECURSIVE SelectGroups(_)
SelectGroups(groups) ==
    IF groups = <<>> THEN <<>>
    ELSE (IF Len(Head(groups).items) > 1 THEN <<Head(groups)>> ELSE <<>>)
         \o SelectGroups(Tail(groups))

\* Array.prototype.sort((a, b) => b.items.length - a.items.length): stable
RECURSIVE sortInsert(_, _)
sortInsert(sorted, g) ==
    IF sorted = <<>> THEN <<g>>
    ELSE IF Len(Head(sorted).items) >= Len(g.items)
    THEN <<Head(sorted)>> \o sortInsert(Tail(sorted), g)
    ELSE <<g>> \o sorted

RECURSIVE sortGroups(_, _)
sortGroups(groups, sorted) ==
    IF groups = <<>> THEN sorted
    ELSE sortGroups(Tail(groups), sortInsert(sorted, Head(groups)))

\* the groups in the insertion order of the Map
buildDuplicateGroupsUnsorted(items) == SelectGroups(groupAll(items, <<>>))

buildDuplicateGroups(items) ==
    sortGroups(SelectGroups(groupAll(items, <<>>)), <<>>)

\* ------------------------------------------------------------------------
\* Merge suggestions.  A score is a fraction [num, den].
\* ------------------------------------------------------------------------
Letters ==
    {"a", "b", "c", "d", "e", "f", "g", "h", "i", "j", "k", "l", "m", "n",
     "o", "p", "q", "r", "s", "t", "u", "v", "w", "x", "y", "z"}

Digits == {"0", "1", "2", "3", "4", "5", "6", "7", "8", "9"}

\* normalize('NFD').replace(/[\u0300-\u036f]/g, '') on the alphabet of the
\* model: the accent of a letter is dropped
BaseChar(c) ==
    CASE c = "é" -> "e"
      [] OTHER -> c

\* replace(/\s+/g, ' ')
RECURSIVE collapseSpaces(_)
collapseSpaces(s) ==
    IF s = <<>> THEN <<>>
    ELSE IF Head(s) = " " /\ Tail(s) # <<>> /\ Head(Tail(s)) = " "
    THEN collapseSpaces(Tail(s))
    ELSE <<Head(s)>> \o collapseSpaces(Tail(s))

normalizeText(value) ==
    LET unmarked == [i \in 1..Len(value) |-> BaseChar(value[i])]
        lower == toLowerCase(unmarked)
        spaced == [i \in 1..Len(lower) |->
                      IF lower[i] \in Letters \cup Digits \cup {" "}
                      THEN lower[i] ELSE " "]
    IN  trim(collapseSpaces(spaced))

stopwords ==
    { <<"t", "h", "e">>,
      <<"a", "n", "d">>,
      <<"f", "o", "r">>,
      <<"w", "i", "t", "h">>,
      <<"f", "r", "o", "m">>,
      <<"i", "n", "t", "o">>,
      <<"a", "b", "o", "u", "t">>,
      <<"t", "h", "i", "s">>,
      <<"t", "h", "a", "t">>,
      <<"t", "o", "d", "o">>,
      <<"p", "a", "r", "a">>,
      <<"c", "o", "n">>,
      <<"p", "o", "r">>,
      <<"l", "o", "s">>,
      <<"l", "a", "s">>,
      <<"u", "n", "a">>,
      <<"u", "n", "o">>,
      <<"d", "e", "l">>,
      <<"l", "a">>,
      <<"e", "l">>,
      <<"d", "e">>,
      <<"y">>,
      <<"e", "n">> }

\* String.prototype.split(' ')
RECURSIVE splitSpaces(_, _)
splitSpaces(s, current) ==
    IF s = <<>> THEN <<current>>
    ELSE IF Head(s) = " " THEN <<current>> \o splitSpaces(Tail(s), <<>>)
    ELSE splitSpaces(Tail(s), Append(current, Head(s)))

\* new Set(list): the elements in the order of their first occurrence
RECURSIVE SetOf(_, _)
SetOf(list, seen) ==
    IF list = <<>> THEN seen
    ELSE SetOf(Tail(list),
               IF Includes(seen, Head(list)) THEN seen
               ELSE Append(seen, Head(list)))

tokenizeName(value) ==
    LET tokens == SelectSeq(splitSpaces(normalizeText(value), <<>>),
                            LAMBDA token : Len(token) >= 2
                                           /\ token \notin stopwords)
    IN  SetOf(tokens, <<>>)

\* listFolderInfos: the folders below the root, in document order
RECURSIVE listFolderWalk(_, _, _)
RECURSIVE listFolderChildren(_, _, _)
listFolderChildren(children, pathTitles, pathIds) ==
    IF children = <<>> THEN <<>>
    ELSE LET child == Head(children)
         IN  (IF child.type = "folder"
              THEN listFolderWalk(child, Append(pathTitles, child.title),
                                  Append(pathIds, child.id))
              ELSE <<>>)
             \o listFolderChildren(Tail(children), pathTitles, pathIds)

listFolderWalk(folder, pathTitles, pathIds) ==
    (IF folder.id # "root"
     THEN <<[id |-> folder.id, title |-> folder.title,
             pathTitles |-> pathTitles, pathIds |-> pathIds,
             normalized |-> normalizeText(folder.title),
             tokens |-> tokenizeName(folder.title)]>>
     ELSE <<>>)
    \o listFolderChildren(folder.children, pathTitles, pathIds)

listFolderInfos(root) == listFolderWalk(root, <<>>, <<root.id>>)

\* buildFolderStats: the entry of a folder
RECURSIVE buildFolderStats(_)
RECURSIVE countChildren(_)
countChildren(children) ==
    IF children = <<>> THEN [bookmarks |-> 0, folders |-> 0]
    ELSE LET child == Head(children)
             rest == countChildren(Tail(children))
         IN  IF child.type = "bookmark"
             THEN [rest EXCEPT !.bookmarks = @ + 1]
             ELSE LET childStats == buildFolderStats(child)
                  IN  [bookmarks |-> rest.bookmarks + childStats.bookmarks,
                       folders |-> rest.folders + 1 + childStats.folders]

buildFolderStats(folder) ==
    LET counted == countChildren(folder.children)
    IN  [bookmarks |-> counted.bookmarks, folders |-> counted.folders,
         total |-> counted.bookmarks + counted.folders]

\* String.prototype.includes
IsSubstring(part, whole) ==
    \E i \in 0..(Len(whole) - Len(part)) :
        SubSeq(whole, i + 1, i + Len(part)) = part

Frac(num, den) == [num |-> num, den |-> den]
ScoreLess(a, b) == a.num * b.den < b.num * a.den
ScoreSum(a, b) == Frac(a.num * b.den + b.num * a.den, a.den * b.den)

scoreSimilarity(a, b) ==
    LET overlap == Len(SelectSeq(a.tokens, LAMBDA token : Includes(b.tokens, token)))
        union == Len(a.tokens) + Len(b.tokens) - overlap
    IN  IF a.normalized # <<>> /\ a.normalized = b.normalized THEN Frac(1, 1)
        ELSE IF /\ a.normalized # <<>>
                /\ b.normalized # <<>>
                /\ \/ IsSubstring(b.normalized, a.normalized)
                   \/ IsSubstring(a.normalized, b.normalized)
        THEN Frac(17, 20)
        ELSE IF Len(a.tokens) = 0 \/ Len(b.tokens) = 0 THEN Frac(0, 1)
        ELSE IF union = 0 THEN Frac(0, 1)
        ELSE Frac(overlap, union)

threshold == Frac(3, 5)

\* tokenIndex: the Map as a list of [token, list] in insertion order; a
\* FolderInfo object is its index in folders
RECURSIVE tokenIndexAdd(_, _, _)
tokenIndexAdd(tokenIndex, token, folder) ==
    IF tokenIndex = <<>> THEN <<[token |-> token, list |-> <<folder>>]>>
    ELSE IF Head(tokenIndex).token = token
    THEN <<[Head(tokenIndex) EXCEPT !.list = Append(@, folder)]>>
         \o Tail(tokenIndex)
    ELSE <<Head(tokenIndex)>> \o tokenIndexAdd(Tail(tokenIndex), token, folder)

RECURSIVE tokenIndexTokens(_, _, _)
tokenIndexTokens(tokenIndex, tokens, folder) ==
    IF tokens = <<>> THEN tokenIndex
    ELSE tokenIndexTokens(tokenIndexAdd(tokenIndex, Head(tokens), folder),
                          Tail(tokens), folder)

\* a loop over the indices lo..hi is the loop over the first half of them
\* followed by the loop over the second half.  TLC evaluates the arguments
\* of an operator when they are used; CHOOSE result \in {f(x) : x \in {e}}
\* is f(e) with e evaluated first
RECURSIVE tokenIndexRange(_, _, _, _)
tokenIndexRange(tokenIndex, folders, lo, hi) ==
    IF lo > hi THEN tokenIndex
    ELSE IF lo = hi
    THEN tokenIndexTokens(tokenIndex, folders[lo].tokens, lo)
    ELSE CHOOSE result \in
             {tokenIndexRange(half, folders, ((lo + hi) \div 2) + 1, hi) :
                 half \in {tokenIndexRange(tokenIndex, folders, lo,
                                            (lo + hi) \div 2)}} :
             TRUE

tokenIndexFolders(tokenIndex, folders, folder) ==
    tokenIndexRange(tokenIndex, folders, folder, Len(folders))

\* tokenIndex.get(token) || []
tokenIndexGet(tokenIndex, token) ==
    LET found == SelectSeq(tokenIndex, LAMBDA entry : entry.token = token)
    IN  IF found = <<>> THEN <<>> ELSE found[1].list

\* find, with its path compression: [parent, root]
RECURSIVE find(_, _)
find(parent, index) ==
    IF parent[index] # index
    THEN LET above == find(parent, parent[index])
         IN  [parent |-> [above.parent EXCEPT ![index] = above.root],
              root |-> above.root]
    ELSE [parent |-> parent, root |-> index]

union(parent, a, b) ==
    LET rootA == find(parent, a)
        rootB == find(rootA.parent, b)
    IN  IF rootA.root # rootB.root
        THEN [rootB.parent EXCEPT ![rootB.root] = rootA.root]
        ELSE rootB.parent

\* the candidates of a folder: the folders of the lists of its tokens, in
\* the order they are added to the Set
RECURSIVE candidateList(_, _)
candidateList(tokenIndex, tokens) ==
    IF tokens = <<>> THEN <<>>
    ELSE tokenIndexGet(tokenIndex, Head(tokens))
         \o candidateList(tokenIndex, Tail(tokens))

\* the body of the loop over the candidates; st is [parent, seenPairs], the
\* pair key is the pair of ids
pairStep(folders, st, folder, candidate) ==
    LET pairKey == {folders[folder].id, folders[candidate].id}
        seen == [st EXCEPT !.seenPairs = @ \cup {pairKey}]
        score == scoreSimilarity(folders[folder], folders[candidate])
    IN  IF folders[candidate].id = folders[folder].id THEN st
        ELSE IF pairKey \in st.seenPairs THEN st
        ELSE IF \/ Includes(folders[folder].pathIds, folders[candidate].id)
                \/ Includes(folders[candidate].pathIds, folders[folder].id)
        THEN seen
        ELSE IF ScoreLess(score, threshold) THEN seen
        ELSE [seen EXCEPT !.parent = union(@, folder, candidate)]

RECURSIVE pairCandidates(_, _, _, _)
pairCandidates(folders, st, folder, candidates) ==
    IF candidates = <<>> THEN st
    ELSE CHOOSE result \in
             {pairCandidates(folders, next, folder, Tail(candidates)) :
                 next \in {pairStep(folders, st, folder, Head(candidates))}} :
             TRUE

RECURSIVE pairRange(_, _, _, _, _)
pairRange(folders, tokenIndex, st, lo, hi) ==
    IF lo > hi THEN st
    ELSE IF lo = hi
    THEN pairCandidates(folders, st, lo,
             SetOf(candidateList(tokenIndex, folders[lo].tokens), <<>>))
    ELSE CHOOSE result \in
             {pairRange(folders, tokenIndex, half,
                        ((lo + hi) \div 2) + 1, hi) :
                 half \in {pairRange(folders, tokenIndex, st, lo,
                                      (lo + hi) \div 2)}} :
             TRUE

pairFolders(folders, tokenIndex, st, folder) ==
    pairRange(folders, tokenIndex, st, folder, Len(folders))

\* clusters: the Map as a list of [root, list] in insertion order
RECURSIVE clusterAdd(_, _, _)
clusterAdd(clusters, root, folder) ==
    IF clusters = <<>> THEN <<[root |-> root, list |-> <<folder>>]>>
    ELSE IF Head(clusters).root = root
    THEN <<[Head(clusters) EXCEPT !.list = Append(@, folder)]>> \o Tail(clusters)
    ELSE <<Head(clusters)>> \o clusterAdd(Tail(clusters), root, folder)

\* the loop of folders.forEach: st is [parent, clusters]
RECURSIVE clusterRange(_, _, _)
clusterRange(st, lo, hi) ==
    IF lo > hi THEN st
    ELSE IF lo = hi
    THEN LET found == find(st.parent, lo)
         IN  [parent |-> found.parent,
              clusters |-> clusterAdd(st.clusters, found.root, lo)]
    ELSE CHOOSE result \in
             {clusterRange(half, ((lo + hi) \div 2) + 1, hi) :
                 half \in {clusterRange(st, lo, (lo + hi) \div 2)}} :
             TRUE

clusterFolders(folders, parent, clusters, folder) ==
    clusterRange([parent |-> parent, clusters |-> clusters],
                 folder, Len(folders)).clusters

\* stats.get(id)?.total ?? 0
statsTotal(stats, id) == IF id \in DOMAIN stats THEN stats[id].total ELSE 0

\* the comparator of the sort of a cluster
clusterCompare(a, b, stats) ==
    LET depthA == Len(a.pathIds)
        depthB == Len(b.pathIds)
        countA == statsTotal(stats, a.id)
        countB == statsTotal(stats, b.id)
    IN  IF depthA # depthB THEN depthA - depthB
        ELSE IF countA # countB THEN countB - countA
        ELSE Len(a.title) - Len(b.title)

\* Array.prototype.sort is stable
RECURSIVE clusterInsert(_, _, _)
clusterInsert(sorted, item, stats) ==
    IF sorted = <<>> THEN <<item>>
    ELSE IF clusterCompare(item, Head(sorted), stats) < 0
    THEN <<item>> \o sorted
    ELSE <<Head(sorted)>> \o clusterInsert(Tail(sorted), item, stats)

RECURSIVE clusterSort(_, _, _)
clusterSort(list, sorted, stats) ==
    IF list = <<>> THEN sorted
    ELSE clusterSort(Tail(list), clusterInsert(sorted, Head(list), stats), stats)

\* the ids in the order of the default sort of strings
LexTable ==
    <<"node-0", "node-1", "node-10", "node-11", "node-12", "node-13",
      "node-14", "node-15", "node-16", "node-17", "node-18", "node-19",
      "node-2", "node-20", "node-21", "node-22", "node-23", "node-24",
      "node-25", "node-26", "node-27", "node-28", "node-29", "node-3",
      "node-30", "node-31", "node-32", "node-33", "node-34", "node-35",
      "node-36", "node-37", "node-38", "node-39", "node-4", "node-40",
      "node-41", "node-42", "node-43", "node-44", "node-45", "node-46",
      "node-47", "node-48", "node-49", "node-5", "node-50", "node-51",
      "node-52", "node-53", "node-54", "node-55", "node-56", "node-57",
      "node-58", "node-59", "node-6", "node-7", "node-8", "node-9",
      "root">>

LexRank(id) == CHOOSE i \in 1..Len(LexTable) : LexTable[i] = id

RECURSIVE sortIds(_, _)
RECURSIVE sortIdInsert(_, _)
sortIdInsert(sorted, id) ==
    IF sorted = <<>> THEN <<id>>
    ELSE IF LexRank(id) < LexRank(Head(sorted)) THEN <<id>> \o sorted
    ELSE <<Head(sorted)>> \o sortIdInsert(Tail(sorted), id)

sortIds(ids, sorted) ==
    IF ids = <<>> THEN sorted
    ELSE sortIds(Tail(ids), sortIdInsert(sorted, Head(ids)))

RECURSIVE sumScores(_)
sumScores(sources) ==
    IF sources = <<>> THEN Frac(0, 1)
    ELSE ScoreSum(Head(sources).score, sumScores(Tail(sources)))

\* mutant of clusterSuggestion: every member of the cluster that scores
\* against the target is a source
clusterSuggestionOfAll(folders, cluster, stats) ==
    LET members == [i \in 1..Len(cluster.list) |-> folders[cluster.list[i]]]
        sorted == clusterSort(members, <<>>, stats)
        target == sorted[1]
        mapped == [i \in 1..Len(sorted) |->
                     [id |-> sorted[i].id,
                      score |-> scoreSimilarity(sorted[i], target)]]
        sources == SelectSeq(mapped,
                             LAMBDA item : ~ScoreLess(item.score, threshold))
        total == sumScores(sources)
    IN  IF Len(cluster.list) < 2 THEN <<>>
        ELSE IF sources = <<>> THEN <<>>
        ELSE <<[id |-> [targetId |-> target.id,
                        sources |-> sortIds([i \in 1..Len(sources) |->
                                                 sources[i].id], <<>>)],
                targetId |-> target.id,
                score |-> Frac(total.num, total.den * Len(sources)),
                sources |-> sources]>>

\* the suggestion of a cluster, optional.  The id target::s1,s2 is [targetId,
\* sources] with the source ids sorted as strings
clusterSuggestion(folders, cluster, stats) ==
    LET members == [i \in 1..Len(cluster.list) |-> folders[cluster.list[i]]]
        sorted == clusterSort(members, <<>>, stats)
        target == sorted[1]
        mapped == [i \in 1..(Len(sorted) - 1) |->
                     [id |-> sorted[i + 1].id,
                      score |-> scoreSimilarity(sorted[i + 1], target)]]
        scored == SelectSeq(mapped,
                            LAMBDA item : ~ScoreLess(item.score, threshold))
        sources == SelectSeq(scored,
                             LAMBDA item : ~Includes(target.pathIds, item.id))
        total == sumScores(sources)
    IN  IF Len(cluster.list) < 2 THEN <<>>
        ELSE IF sources = <<>> THEN <<>>
        ELSE <<[id |-> [targetId |-> target.id,
                        sources |-> sortIds([i \in 1..Len(sources) |->
                                                 sources[i].id], <<>>)],
                targetId |-> target.id,
                score |-> Frac(total.num, total.den * Len(sources)),
                sources |-> sources]>>

RECURSIVE clusterSuggestionRange(_, _, _, _, _)
clusterSuggestionRange(folders, clusters, stats, lo, hi) ==
    IF lo > hi THEN <<>>
    ELSE IF lo = hi THEN clusterSuggestion(folders, clusters[lo], stats)
    ELSE clusterSuggestionRange(folders, clusters, stats, lo, (lo + hi) \div 2)
         \o clusterSuggestionRange(folders, clusters, stats,
                                   ((lo + hi) \div 2) + 1, hi)

clusterSuggestions(folders, clusters, stats) ==
    clusterSuggestionRange(folders, clusters, stats, 1, Len(clusters))

\* suggestions.sort((a, b) => b.score - a.score)
RECURSIVE suggestionInsert(_, _)
suggestionInsert(sorted, item) ==
    IF sorted = <<>> THEN <<item>>
    ELSE IF ScoreLess(Head(sorted).score, item.score) THEN <<item>> \o sorted
    ELSE <<Head(sorted)>> \o suggestionInsert(Tail(sorted), item)

RECURSIVE suggestionSortRange(_, _, _, _)
suggestionSortRange(list, sorted, lo, hi) ==
    IF lo > hi THEN sorted
    ELSE IF lo = hi THEN suggestionInsert(sorted, list[lo])
    ELSE CHOOSE result \in
             {suggestionSortRange(list, half, ((lo + hi) \div 2) + 1, hi) :
                 half \in {suggestionSortRange(list, sorted, lo,
                                                (lo + hi) \div 2)}} :
             TRUE

suggestionSort(list, sorted) == suggestionSortRange(list, sorted, 1, Len(list))

\* mutant of buildMergeSuggestions: the sorted list is returned whole
buildMergeSuggestionsAll(folders, stats) ==
    CHOOSE result \in
        {suggestionSort(list, <<>>) :
            list \in
                {clusterSuggestions(folders, clusters, stats) :
                    clusters \in
                        {clusterFolders(folders, paired.parent, <<>>, 1) :
                            paired \in
                                {pairFolders(folders, tokenIndex,
                                     [parent |-> [i \in 1..Len(folders) |-> i],
                                      seenPairs |-> {}], 1) :
                                    tokenIndex \in
                                        {tokenIndexFolders(<<>>, folders, 1)}}}}} :
        TRUE

buildMergeSuggestions(folders, stats) ==
    CHOOSE result \in
        {SubSeq(suggestions, 1,
                IF Len(suggestions) < 20 THEN Len(suggestions) ELSE 20) :
            suggestions \in
                {suggestionSort(list, <<>>) :
                    list \in
                        {clusterSuggestions(folders, clusters, stats) :
                            clusters \in
                                {clusterFolders(folders, paired.parent, <<>>, 1) :
                                    paired \in
                                        {pairFolders(folders, tokenIndex,
                                             [parent |-> [i \in 1..Len(folders) |-> i],
                                              seenPairs |-> {}], 1) :
                                            tokenIndex \in
                                                {tokenIndexFolders(<<>>, folders, 1)}}}}}} :
        TRUE

\* ------------------------------------------------------------------------
\* mergeFoldersIntoTarget
\* ------------------------------------------------------------------------
RECURSIVE mergeFoldersIntoTarget(_, _, _)
\* mutant of mergeFoldersIntoTarget: the children are appended to the tree
\* that still holds the source
mergeFoldersIntoStale(root, sourceIds, targetId) ==
    IF sourceIds = <<>> THEN root
    ELSE
        LET sourceId == Head(sourceIds)
            targetPath == findPathIds(root, targetId, <<>>)
            removed == removeNodeById(root, sourceId)
            merged == appendChildrenToFolder(root, targetId,
                                             removed.removed[1].children)
            nextRoot ==
                IF sourceId = targetId THEN root
                ELSE IF targetPath # <<>> /\ Includes(targetPath[1], sourceId)
                THEN root
                ELSE IF removed.removed = <<>> THEN root
                ELSE IF removed.removed[1].type # "folder" THEN root
                ELSE IF merged.updated THEN merged.folder ELSE root
        IN  mergeFoldersIntoTarget(nextRoot, Tail(sourceIds), targetId)

\* mutant of mergeFoldersIntoTarget: the source is removed with what it
\* holds
mergeFoldersDropped(root, sourceIds, targetId) ==
    IF sourceIds = <<>> THEN root
    ELSE
        LET sourceId == Head(sourceIds)
            targetPath == findPathIds(root, targetId, <<>>)
            removed == removeNodeById(root, sourceId)
            nextRoot ==
                IF sourceId = targetId THEN root
                ELSE IF targetPath # <<>> /\ Includes(targetPath[1], sourceId)
                THEN root
                ELSE IF removed.removed = <<>> THEN root
                ELSE IF removed.removed[1].type # "folder" THEN root
                ELSE removed.folder
        IN  mergeFoldersIntoTarget(nextRoot, Tail(sourceIds), targetId)

mergeFoldersIntoTarget(root, sourceIds, targetId) ==
    IF sourceIds = <<>> THEN root
    ELSE
        LET sourceId == Head(sourceIds)
            targetPath == findPathIds(root, targetId, <<>>)
            removed == removeNodeById(root, sourceId)
            merged == appendChildrenToFolder(removed.folder, targetId,
                                             removed.removed[1].children)
            nextRoot ==
                IF sourceId = targetId THEN root
                ELSE IF targetPath # <<>> /\ Includes(targetPath[1], sourceId)
                THEN root
                ELSE IF removed.removed = <<>> THEN root
                ELSE IF removed.removed[1].type # "folder" THEN root
                ELSE IF merged.updated THEN merged.folder ELSE root
        IN  mergeFoldersIntoTarget(nextRoot, Tail(sourceIds), targetId)

\* ------------------------------------------------------------------------
\* State of the App component
\* ------------------------------------------------------------------------
VARIABLES
    parsed,               \* optional [root]
    pendingFile,          \* optional file whose text is being read (isLoading)
    duplicateSelections,  \* function: group key -> id kept
    dismissedSuggestions, \* set of suggestion ids
    renamingFolderId,     \* optional id
    renameValue,          \* string
    scanState,            \* "idle" | "running" | "done" | "stopped" | "error"
    scanStats,            \* published stats
    scanResults,          \* published results
    scanError,            \* optional message
    scanAbortRef,         \* 0 (null) or the index in scans of the controller
    scanResultsRef,       \* accumulated results
    scanStatsRef,         \* accumulated stats
    scanUpdateTimerRef,   \* TRUE iff the 200 ms flush timer is pending
    scans,                \* the activations of startScan, in start order
    resultsScan,          \* history: for each entry of scanResultsRef, the
                          \* activation whose worker pushed it
    checks                \* check service: the activations of the handler
                          \* of POST /api/check, in arrival order

treeVars == <<parsed, pendingFile, duplicateSelections, dismissedSuggestions,
              renamingFolderId, renameValue>>

scanVars == <<scanState, scanStats, scanResults, scanError, scanAbortRef,
              scanResultsRef, scanStatsRef, scanUpdateTimerRef, scans,
              resultsScan>>

vars == <<parsed, pendingFile, duplicateSelections, dismissedSuggestions,
          renamingFolderId, renameValue, scanState, scanStats, scanResults, scanError,
          scanAbortRef, scanResultsRef, scanStatsRef, scanUpdateTimerRef,
          scans, resultsScan, checks>>

\* the state of the check service (server/index.js), a process of its own
serverVars == <<checks>>

ZeroStats == [total |-> 0, scanned |-> 0, ok |-> 0, broken |-> 0, error |-> 0]

\* the scan part of the state as one value, so that a handler is the
\* composition of the functions it calls
ScanCtx ==
    [scanState |-> scanState, scanStats |-> scanStats,
     scanResults |-> scanResults, scanError |-> scanError,
     scanAbortRef |-> scanAbortRef, scanResultsRef |-> scanResultsRef,
     scanStatsRef |-> scanStatsRef, scanUpdateTimerRef |-> scanUpdateTimerRef,
     scans |-> scans, resultsScan |-> resultsScan]

SetScanCtx(c) ==
    /\ scanState' = c.scanState
    /\ scanStats' = c.scanStats
    /\ scanResults' = c.scanResults
    /\ scanError' = c.scanError
    /\ scanAbortRef' = c.scanAbortRef
    /\ scanResultsRef' = c.scanResultsRef
    /\ scanStatsRef' = c.scanStatsRef
    /\ scanUpdateTimerRef' = c.scanUpdateTimerRef
    /\ scans' = c.scans
    /\ resultsScan' = c.resultsScan

\* scanAbortRef.current?.abort()
abortCurrent(c) ==
    IF c.scanAbortRef = 0 THEN c
    ELSE [c EXCEPT !.scans[c.scanAbortRef].aborted = TRUE]

resetScan(c) ==
    [abortCurrent(c) EXCEPT
        !.scanAbortRef = 0,
        !.scanUpdateTimerRef = FALSE,
        !.scanResultsRef = <<>>,
        !.resultsScan = <<>>,
        !.scanStatsRef = ZeroStats,
        !.scanResults = <<>>,
        !.scanStats = ZeroStats,
        !.scanState = "idle",
        !.scanError = <<>>]

\* the timer callback and the final flush: setScanResults, setScanStats
publish(c) ==
    [c EXCEPT !.scanResults = c.scanResultsRef, !.scanStats = c.scanStatsRef]

\* if (scanUpdateTimerRef.current !== null) return; ... = setTimeout(...)
scheduleScanUpdate(c) == [c EXCEPT !.scanUpdateTimerRef = TRUE]

\* ------------------------------------------------------------------------
\* The scan.  An activation of startScan is [aborted (controller.signal),
\* cursor, scanTargets (the list captured by the closure), workers, settled
\* (the code after await Promise.all has run)].  A worker is at one of its
\* awaits: "resolved" (checkBookmark returned without a request), "fetch"
\* (await fetch), "json" (await response.json()), or it has "ended".
\* ------------------------------------------------------------------------
\* mutant of concurrency: one worker more
concurrencyOver == 8 + 1

concurrency == 8

EndedWorker == [phase |-> "ended", item |-> -1, responseOk |-> TRUE]

\* the values response.json().catch(() => ({})) can give: ok and status are
\* optional
DataValues ==
    { [ok |-> <<>>, status |-> <<>>],
      [ok |-> <<FALSE>>, status |-> <<>>],
      [ok |-> <<TRUE>>, status |-> <<>>],
      [ok |-> <<TRUE>>, status |-> <<200>>],
      [ok |-> <<TRUE>>, status |-> <<404>>] }

\* a ScanResult: id, status and error.  error is 'Missing URL', "" where the
\* result has none, and the one value ProbeError for every message that
\* comes from the request: data.error, err.message, 'Request failed (n)',
\* 'Check failed' or 'Missing status code'
MissingUrl == "Missing URL"
ProbeError == "probe error"

ErrorResult(bookmark, error) ==
    [id |-> bookmark.id, status |-> "error", error |-> error]

\* mutant of checkResult: the test of the status code is inverted
checkResultInverted(bookmark, responseOk, data) ==
    IF ~responseOk THEN ErrorResult(bookmark, ProbeError)
    ELSE IF data.ok # <<TRUE>> THEN ErrorResult(bookmark, ProbeError)
    ELSE IF data.status = <<>> THEN ErrorResult(bookmark, ProbeError)
    ELSE [id |-> bookmark.id,
          status |-> IF data.status[1] >= 400 THEN "ok" ELSE "broken",
          error |-> ""]

\* the ScanResult of checkBookmark once the response and its body are known
checkResult(bookmark, responseOk, data) ==
    IF ~responseOk THEN ErrorResult(bookmark, ProbeError)
    ELSE IF data.ok # <<TRUE>> THEN ErrorResult(bookmark, ProbeError)
    ELSE IF data.status = <<>> THEN ErrorResult(bookmark, ProbeError)
    ELSE [id |-> bookmark.id,
          status |-> IF data.status[1] >= 400 THEN "broken" ELSE "ok",
          error |-> ""]

\* mutant of nextItem: controller.signal.aborted is not tested
nextItemUnchecked(scan) ==
    IF scan.cursor >= Len(scan.scanTargets) THEN <<>>
    ELSE <<scan.cursor>>

\* nextItem: the optional index claimed
nextItem(scan) ==
    IF scan.aborted THEN <<>>
    ELSE IF scan.cursor >= Len(scan.scanTargets) THEN <<>>
    ELSE <<scan.cursor>>

\* mutant of workerLoop: checkBookmark does not test bookmark.url
workerLoopFetch(c, s, w) ==
    LET scan == c.scans[s]
        item == nextItem(scan)
    IN  IF item = <<>> THEN [c EXCEPT !.scans[s].workers[w] = EndedWorker]
        ELSE [c EXCEPT
                !.scans[s].cursor = scan.cursor + 1,
                !.scans[s].workers[w] =
                    [phase |-> "fetch", item |-> item[1], responseOk |-> TRUE]]

\* the worker's loop from its head to its next await
workerLoop(c, s, w) ==
    LET scan == c.scans[s]
        item == nextItem(scan)
    IN  IF item = <<>> THEN [c EXCEPT !.scans[s].workers[w] = EndedWorker]
        ELSE [c EXCEPT
                !.scans[s].cursor = scan.cursor + 1,
                !.scans[s].workers[w] =
                    [phase |-> IF scan.scanTargets[item[1] + 1].url.kind = "empty"
                               THEN "resolved" ELSE "fetch",
                     item |-> item[1],
                     responseOk |-> TRUE]]

\* mutant of workerRecord: an error result cancels the scan
workerRecordFatal(c, s, result) ==
    LET c1 == scheduleScanUpdate(
                 [c EXCEPT
                    !.scanResultsRef = Append(@, result),
                    !.resultsScan = Append(@, s),
                    !.scanStatsRef =
                        [@ EXCEPT
                            !.scanned = @ + 1,
                            !.ok = IF result.status = "ok" THEN @ + 1 ELSE @,
                            !.broken = IF result.status = "broken" THEN @ + 1 ELSE @,
                            !.error = IF result.status = "error" THEN @ + 1 ELSE @]])
    IN  IF result.status = "error" THEN [c1 EXCEPT !.scans[s].aborted = TRUE]
        ELSE c1

\* the worker's loop body after await checkBookmark gave a result
workerRecord(c, s, result) ==
    scheduleScanUpdate(
        [c EXCEPT
            !.scanResultsRef = Append(@, result),
            !.resultsScan = Append(@, s),
            !.scanStatsRef =
                [@ EXCEPT
                    !.scanned = @ + 1,
                    !.ok = IF result.status = "ok" THEN @ + 1 ELSE @,
                    !.broken = IF result.status = "broken" THEN @ + 1 ELSE @,
                    !.error = IF result.status = "error" THEN @ + 1 ELSE @]])

Min(a, b) == IF a < b THEN a ELSE b

\* Array.from({ length }, () => worker()): each worker runs to its first await
RECURSIVE launchWorkers(_, _, _, _)
launchWorkers(c, s, w, length) ==
    IF w > length THEN c
    ELSE launchWorkers(workerLoop(c, s, w), s, w + 1, length)

AllEnded(scan) == \A w \in DOMAIN scan.workers : scan.workers[w].phase = "ended"

\* a continuation is queued as a microtask: it runs before any other event
MicroPending ==
    \E s \in DOMAIN scans :
        /\ ~scans[s].settled
        /\ \/ AllEnded(scans[s])
           \/ \E w \in DOMAIN scans[s].workers :
                \/ scans[s].workers[w].phase = "resolved"
                \/ scans[s].workers[w].phase = "fetch" /\ scans[s].aborted

Bookmark(s, w) == scans[s].scanTargets[scans[s].workers[w].item + 1]

\* worker w's continuation is queued as a microtask
Queued(s, w) ==
    \/ scans[s].workers[w].phase = "resolved"
    \/ scans[s].workers[w].phase = "fetch" /\ scans[s].aborted

\* the continuations of one activation run in the order they were queued,
\* which is the order of the items: an item is claimed, and its request
\* issued, when the cursor passes it
FirstQueued(s, w) ==
    /\ Queued(s, w)
    /\ \A v \in DOMAIN scans[s].workers :
         Queued(s, v) => scans[s].workers[w].item <= scans[s].workers[v].item

startScanBody(c, scanTargets) ==
    LET c1 == resetScan(c)
        s == Len(c.scans) + 1
        length == Min(concurrency, Len(scanTargets))
        c2 == [c1 EXCEPT
                 !.scanStatsRef = [ZeroStats EXCEPT !.total = Len(scanTargets)],
                 !.scanStats = [ZeroStats EXCEPT !.total = Len(scanTargets)],
                 !.scanState = "running",
                 !.scanAbortRef = s,
                 !.scans = Append(@,
                     [aborted |-> FALSE, cursor |-> 0,
                      scanTargets |-> scanTargets,
                      workers |-> [w \in 1..length |-> EndedWorker],
                      settled |-> FALSE])]
    IN  launchWorkers(c2, s, 1, length)

NoBookmarks == <<"N">>

StartScan ==
    /\ ~MicroPending
    /\ UNCHANGED serverVars
    /\ parsed # <<>>
    /\ LET scanTargets == flattenBookmarks(parsed[1].root)
       IN  IF scanTargets = <<>>
           THEN SetScanCtx([ScanCtx EXCEPT !.scanError = <<NoBookmarks>>])
           ELSE /\ Len(scans) < MaxScans
                /\ SetScanCtx(startScanBody(ScanCtx, scanTargets))
    /\ UNCHANGED treeVars

StopScan ==
    /\ ~MicroPending
    /\ UNCHANGED serverVars
    /\ SetScanCtx([abortCurrent(ScanCtx) EXCEPT !.scanState = "stopped"])
    /\ UNCHANGED treeVars

\* await checkBookmark(...) resumes for a bookmark without url: 'Missing URL'
WorkerResolved(s, w) ==
    /\ scans[s].workers[w].phase = "resolved"
    /\ UNCHANGED serverVars
    /\ FirstQueued(s, w)
    /\ SetScanCtx(workerLoop(
           workerRecord(ScanCtx, s,
               ErrorResult(Bookmark(s, w), MissingUrl)), s, w))
    /\ UNCHANGED treeVars

\* await fetch rejects with AbortError: checkBookmark gives null, the worker
\* breaks
\* mutant of FetchAborted: the fetch of an aborted controller never rejects
FetchAbortedLost(s, w) ==
    /\ scans[s].workers[w].phase = "fetch"
    /\ FALSE
    /\ UNCHANGED vars

FetchAborted(s, w) ==
    /\ scans[s].workers[w].phase = "fetch"
    /\ UNCHANGED serverVars
    /\ scans[s].aborted
    /\ FirstQueued(s, w)
    /\ SetScanCtx([ScanCtx EXCEPT !.scans[s].workers[w] = EndedWorker])
    /\ UNCHANGED treeVars

\* await fetch resumes: a response (ok or not), or another exception
FetchSettled(s, w) ==
    /\ ~MicroPending
    /\ UNCHANGED serverVars
    /\ scans[s].workers[w].phase = "fetch"
    /\ ~scans[s].aborted
    /\ \E outcome \in {"ok", "notOk", "throw"} :
         IF outcome = "throw"
         THEN SetScanCtx(workerLoop(
                  workerRecord(ScanCtx, s,
                      ErrorResult(Bookmark(s, w), ProbeError)), s, w))
         ELSE SetScanCtx([ScanCtx EXCEPT
                  !.scans[s].workers[w].phase = "json",
                  !.scans[s].workers[w].responseOk = (outcome = "ok")])
    /\ UNCHANGED treeVars

\* await response.json().catch(() => ({})) resumes; a rejection of json(),
\* that of an abort included, is the value {}
JsonReturns(s, w, data) ==
    SetScanCtx(workerLoop(
        workerRecord(ScanCtx, s,
            checkResult(Bookmark(s, w), scans[s].workers[w].responseOk,
                        data)), s, w))

JsonSettled(s, w) ==
    /\ ~MicroPending
    /\ UNCHANGED serverVars
    /\ scans[s].workers[w].phase = "json"
    /\ \E data \in DataValues : JsonReturns(s, w, data)
    /\ UNCHANGED treeVars

\* startScan after await Promise.all(workers), with its finally block
startScanSettle(c, s) ==
    publish([c EXCEPT
        !.scanState = IF c.scans[s].aborted THEN "stopped" ELSE "done",
        !.scanAbortRef = 0,
        !.scanUpdateTimerRef = FALSE,
        !.scans[s] = [aborted |-> c.scans[s].aborted, cursor |-> 0,
                      scanTargets |-> <<>>, workers |-> <<>>,
                      settled |-> TRUE]])

StartScanSettled(s) ==
    /\ ~scans[s].settled
    /\ UNCHANGED serverVars
    /\ AllEnded(scans[s])
    /\ SetScanCtx(startScanSettle(ScanCtx, s))
    /\ UNCHANGED treeVars

\* the callback of scheduleScanUpdate's timer
FlushTimer ==
    /\ ~MicroPending
    /\ UNCHANGED serverVars
    /\ scanUpdateTimerRef
    /\ SetScanCtx(publish([ScanCtx EXCEPT !.scanUpdateTimerRef = FALSE]))
    /\ UNCHANGED treeVars

\* ------------------------------------------------------------------------
\* Derived views and the effects that follow a change of parsed
\* ------------------------------------------------------------------------
\* the nodes below a folder (the rows the tree view renders)
RECURSIVE NodesOf(_)
NodesOf(children) ==
    IF children = <<>> THEN {}
    ELSE {Head(children)}
         \cup (IF Head(children).type = "folder"
               THEN NodesOf(Head(children).children) ELSE {})
         \cup NodesOf(Tail(children))

TreeNodes == IF parsed = <<>> THEN {} ELSE NodesOf(parsed[1].root.children)

TreeFolders == {n \in TreeNodes : n.type = "folder"}

duplicateGroupsOf(p) ==
    IF p = <<>> THEN <<>> ELSE buildDuplicateGroups(flattenBookmarks(p[1].root))

duplicateGroups == duplicateGroupsOf(parsed)

NoSelections == [k \in {} |-> ""]

\* every group back on its first item
syncSelectionsFirst(prev, groups) ==
    IF groups = <<>> THEN NoSelections
    ELSE [key \in {groups[i].key : i \in 1..Len(groups)} |->
            (CHOOSE g \in {groups[i] : i \in 1..Len(groups)} :
                 g.key = key).items[1].id]

\* useEffect(..., [duplicateGroups])
syncSelections(prev, groups) ==
    IF groups = <<>> THEN NoSelections
    ELSE [key \in {groups[i].key : i \in 1..Len(groups)} |->
            LET group == CHOOSE g \in {groups[i] : i \in 1..Len(groups)} :
                             g.key = key
            IN  IF /\ key \in DOMAIN prev
                   /\ \E i \in 1..Len(group.items) : group.items[i].id = prev[key]
                THEN prev[key]
                ELSE group.items[1].id]

\* folderStats: the Map of buildFolderStats
folderStatsOf(p) ==
    IF p = <<>> THEN [id \in {} |-> 0]
    ELSE LET folders == {p[1].root}
                        \cup {n \in NodesOf(p[1].root.children) :
                                 n.type = "folder"}
         IN  [id \in {f.id : f \in folders} |->
                 buildFolderStats(CHOOSE f \in folders : f.id = id)]

folderInfosOf(p) == IF p = <<>> THEN <<>> ELSE listFolderInfos(p[1].root)

mergeSuggestionsOf(p) ==
    IF p = <<>> THEN <<>>
    ELSE CHOOSE result \in
             {buildMergeSuggestions(folders, stats) :
                 folders \in {folderInfosOf(p)}, stats \in {folderStatsOf(p)}} :
             TRUE

mergeSuggestions == mergeSuggestionsOf(parsed)

visibleSuggestions ==
    IF dismissedSuggestions = {} THEN mergeSuggestions
    ELSE SelectSeq(mergeSuggestions,
                   LAMBDA suggestion : suggestion.id \notin dismissedSuggestions)

\* mutant of pruneDismissed: the set is kept as it is
pruneDismissedKept(prev, suggestions) == prev

\* useEffect(..., [mergeSuggestions])
pruneDismissed(prev, suggestions) ==
    {suggestions[i].id : i \in {j \in 1..Len(suggestions) :
                                   suggestions[j].id \in prev}}

\* setParsed with the effects its re-render runs
SetParsed(p) ==
    /\ parsed' = p
    /\ duplicateSelections' = syncSelections(duplicateSelections,
                                             duplicateGroupsOf(p))
    /\ dismissedSuggestions' = pruneDismissed(dismissedSuggestions,
                                              mergeSuggestionsOf(p))

\* ------------------------------------------------------------------------
\* Import
\* ------------------------------------------------------------------------
BookmarkTitle == <<"a">>
FolderTitle == <<"w">>
UrlX == HttpUrl(<<"X">>, <<"/">>)

Link(href) == [tag |-> "A", text |-> <<BookmarkTitle>>, href |-> href]
FolderOf(items) == [tag |-> "H3", text |-> <<FolderTitle>>, items |-> items]

\* the files of the scan specification: one with two bookmarks of the same
\* url, one with a bookmark without url
Files ==
    { [hasDl |-> TRUE, items |-> <<Link(UrlX), Link(UrlX)>>],
      [hasDl |-> TRUE, items |-> <<Link(EmptyUrl), Link(UrlX)>>] }

\* handleFile up to await file.text()
HandleFile(file) ==
    /\ ~MicroPending
    /\ UNCHANGED serverVars
    /\ pendingFile = <<>>
    /\ pendingFile' = <<file>>
    /\ SetScanCtx(resetScan(ScanCtx))
    /\ renamingFolderId' = <<>>
    /\ renameValue' = <<>>
    /\ UNCHANGED <<parsed, duplicateSelections, dismissedSuggestions>>

\* handleFile after await file.text()
HandleFileRead ==
    /\ ~MicroPending
    /\ UNCHANGED serverVars
    /\ pendingFile # <<>>
    /\ LET root == parseBookmarkHtml(pendingFile[1])
       IN  IF root # <<>> THEN SetParsed(<<[root |-> root[1]]>>)
           ELSE SetParsed(<<>>)
    /\ pendingFile' = <<>>
    /\ UNCHANGED <<renamingFolderId, renameValue>>
    /\ UNCHANGED scanVars

\* ------------------------------------------------------------------------
\* Rename, delete
\* ------------------------------------------------------------------------
RenameValues == { <<" ">>, <<"z">> }

StartRename(folder) ==
    /\ ~MicroPending
    /\ UNCHANGED serverVars
    /\ renamingFolderId' = <<folder.id>>
    /\ renameValue' = folder.title
    /\ UNCHANGED <<parsed, pendingFile, duplicateSelections,
                   dismissedSuggestions>>
    /\ UNCHANGED scanVars

\* onChange of the rename input
ChangeRenameValue(value) ==
    /\ ~MicroPending
    /\ UNCHANGED serverVars
    /\ renamingFolderId # <<>>
    /\ renameValue' = value
    /\ UNCHANGED <<parsed, pendingFile, duplicateSelections,
                   dismissedSuggestions, renamingFolderId>>
    /\ UNCHANGED scanVars

CancelRename ==
    /\ ~MicroPending
    /\ UNCHANGED serverVars
    /\ renamingFolderId' = <<>>
    /\ renameValue' = <<>>
    /\ UNCHANGED <<parsed, pendingFile, duplicateSelections,
                   dismissedSuggestions>>
    /\ UNCHANGED scanVars

SaveRename ==
    /\ ~MicroPending
    /\ UNCHANGED serverVars
    /\ parsed # <<>>
    /\ renamingFolderId # <<>>
    /\ IF trim(renameValue) = <<>> THEN UNCHANGED treeVars
       ELSE /\ SetParsed(<<[root |-> updateFolderTitle(parsed[1].root,
                                         renamingFolderId[1],
                                         trim(renameValue))]>>)
            /\ renamingFolderId' = <<>>
            /\ renameValue' = <<>>
            /\ UNCHANGED pendingFile
    /\ UNCHANGED scanVars

\* confirm is the answer of window.confirm
DeleteFolder(folderId, confirm) ==
    /\ ~MicroPending
    /\ UNCHANGED serverVars
    /\ parsed # <<>>
    /\ LET result == removeNodeById(parsed[1].root, folderId)
       IN  IF ~confirm \/ result.removed = <<>> THEN UNCHANGED vars
           ELSE /\ SetParsed(<<[root |-> result.folder]>>)
                /\ IF renamingFolderId = <<folderId>>
                   THEN renamingFolderId' = <<>> /\ renameValue' = <<>>
                   ELSE UNCHANGED <<renamingFolderId, renameValue>>
                /\ SetScanCtx(resetScan(ScanCtx))
                /\ UNCHANGED pendingFile

\* ------------------------------------------------------------------------
\* Move
\* ------------------------------------------------------------------------
DropPositions == {"before", "after", "inside"}

\* mutant of isDropAllowed: a drop of a node on itself is let through
isDropAllowedOnSelf(sourceId, target, position) ==
    LET sourceLocation == findNodeLocation(parsed[1].root, sourceId)
        path == findPathIds(parsed[1].root, target.id, <<>>)
    IN  IF parsed = <<>> THEN FALSE
        ELSE IF sourceLocation = <<>> THEN FALSE
        ELSE IF position = "inside" /\ target.type # "folder" THEN FALSE
        ELSE IF /\ sourceLocation[1].node.type = "folder"
                /\ path # <<>>
                /\ Includes(path[1], sourceId)
        THEN FALSE
        ELSE TRUE

isDropAllowed(sourceId, target, position) ==
    LET sourceLocation == findNodeLocation(parsed[1].root, sourceId)
        path == findPathIds(parsed[1].root, target.id, <<>>)
    IN  IF parsed = <<>> THEN FALSE
        ELSE IF sourceId = target.id THEN FALSE
        ELSE IF sourceLocation = <<>> THEN FALSE
        ELSE IF position = "inside" /\ target.type # "folder" THEN FALSE
        ELSE IF /\ sourceLocation[1].node.type = "folder"
                /\ path # <<>>
                /\ Includes(path[1], sourceId)
        THEN FALSE
        ELSE TRUE

\* mutant of moveNode: the target is located in the tree that still holds
\* the source
moveNodeStaleIndex(sourceId, target, position) ==
    LET removed == removeNodeById(parsed[1].root, sourceId)
        targetLocation == findNodeLocation(parsed[1].root, target.id)
        insertedInside == insertNodeAt(removed.folder, target.id,
                                       removed.removed[1], <<>>)
        insertIndex == targetLocation[1].index
                       + (IF position = "after" THEN 1 ELSE 0)
        inserted == insertNodeAt(removed.folder, targetLocation[1].parentId,
                                 removed.removed[1], <<insertIndex>>)
    IN  IF parsed = <<>> THEN <<>>
        ELSE IF ~isDropAllowed(sourceId, target, position) THEN <<>>
        ELSE IF removed.removed = <<>> THEN <<>>
        ELSE IF targetLocation = <<>>
        THEN <<[root |-> parsed[1].root, reset |-> FALSE]>>
        ELSE IF position = "inside"
        THEN IF target.type # "folder" THEN <<>>
             ELSE IF insertedInside.inserted
             THEN <<[root |-> insertedInside.folder, reset |-> TRUE]>>
             ELSE <<>>
        ELSE IF inserted.inserted
        THEN <<[root |-> inserted.folder, reset |-> TRUE]>>
        ELSE <<>>

\* mutant of moveNode: without the target the tree without the source is
\* published
moveNodeLost(sourceId, target, position) ==
    LET removed == removeNodeById(parsed[1].root, sourceId)
        targetLocation == findNodeLocation(removed.folder, target.id)
        insertedInside == insertNodeAt(removed.folder, target.id,
                                       removed.removed[1], <<>>)
        insertIndex == targetLocation[1].index
                       + (IF position = "after" THEN 1 ELSE 0)
        inserted == insertNodeAt(removed.folder, targetLocation[1].parentId,
                                 removed.removed[1], <<insertIndex>>)
    IN  IF parsed = <<>> THEN <<>>
        ELSE IF ~isDropAllowed(sourceId, target, position) THEN <<>>
        ELSE IF removed.removed = <<>> THEN <<>>
        ELSE IF targetLocation = <<>>
        THEN <<[root |-> removed.folder, reset |-> FALSE]>>
        ELSE IF position = "inside"
        THEN IF target.type # "folder" THEN <<>>
             ELSE IF insertedInside.inserted
             THEN <<[root |-> insertedInside.folder, reset |-> TRUE]>>
             ELSE <<>>
        ELSE IF inserted.inserted
        THEN <<[root |-> inserted.folder, reset |-> TRUE]>>
        ELSE <<>>

\* moveNode: the optional [root, reset] it publishes: <<>> when it returns
\* without setParsed, reset when it goes on to resetScan
moveNode(sourceId, target, position) ==
    LET removed == removeNodeById(parsed[1].root, sourceId)
        targetLocation == findNodeLocation(removed.folder, target.id)
        insertedInside == insertNodeAt(removed.folder, target.id,
                                       removed.removed[1], <<>>)
        insertIndex == targetLocation[1].index
                       + (IF position = "after" THEN 1 ELSE 0)
        inserted == insertNodeAt(removed.folder, targetLocation[1].parentId,
                                 removed.removed[1], <<insertIndex>>)
    IN  IF parsed = <<>> THEN <<>>
        ELSE IF ~isDropAllowed(sourceId, target, position) THEN <<>>
        ELSE IF removed.removed = <<>> THEN <<>>
        ELSE IF targetLocation = <<>>
        THEN <<[root |-> parsed[1].root, reset |-> FALSE]>>
        ELSE IF position = "inside"
        THEN IF target.type # "folder" THEN <<>>
             ELSE IF insertedInside.inserted
             THEN <<[root |-> insertedInside.folder, reset |-> TRUE]>>
             ELSE <<>>
        ELSE IF inserted.inserted
        THEN <<[root |-> inserted.folder, reset |-> TRUE]>>
        ELSE <<>>

MoveNode(sourceId, target, position) ==
    /\ ~MicroPending
    /\ UNCHANGED serverVars
    /\ LET next == moveNode(sourceId, target, position)
       IN  IF next = <<>> THEN UNCHANGED vars
           ELSE /\ SetParsed(<<[root |-> next[1].root]>>)
                /\ IF next[1].reset THEN SetScanCtx(resetScan(ScanCtx))
                   ELSE UNCHANGED scanVars
                /\ UNCHANGED <<pendingFile, renamingFolderId, renameValue>>

\* ------------------------------------------------------------------------
\* Merge, duplicates
\* ------------------------------------------------------------------------
\* suggestion: [targetId, sources (list of ids)]
AcceptSuggestion(suggestion) ==
    /\ ~MicroPending
    /\ UNCHANGED serverVars
    /\ parsed # <<>>
    /\ LET nextRoot == mergeFoldersIntoTarget(parsed[1].root,
                                              suggestion.sources,
                                              suggestion.targetId)
       IN  IF suggestion.sources = <<>> \/ nextRoot = parsed[1].root
           THEN UNCHANGED vars
           ELSE /\ SetParsed(<<[root |-> nextRoot]>>)
                /\ SetScanCtx(resetScan(ScanCtx))
                /\ UNCHANGED <<pendingFile, renamingFolderId, renameValue>>

DismissSuggestion(id) ==
    /\ ~MicroPending
    /\ UNCHANGED serverVars
    /\ dismissedSuggestions' = dismissedSuggestions \cup {id}
    /\ UNCHANGED <<parsed, pendingFile, duplicateSelections, renamingFolderId,
                   renameValue>>
    /\ UNCHANGED scanVars

UpdateDuplicateSelection(key, id) ==
    /\ ~MicroPending
    /\ UNCHANGED serverVars
    /\ duplicateSelections' =
           [k \in DOMAIN duplicateSelections \cup {key} |->
               IF k = key THEN id ELSE duplicateSelections[k]]
    /\ UNCHANGED <<parsed, pendingFile, dismissedSuggestions, renamingFolderId,
                   renameValue>>
    /\ UNCHANGED scanVars

RemoveDuplicateGroup(group) ==
    /\ ~MicroPending
    /\ UNCHANGED serverVars
    /\ parsed # <<>>
    /\ LET keepId == duplicateSelections[group.key]
           idsToRemove == {group.items[i].id : i \in
                              {j \in 1..Len(group.items) :
                                  group.items[j].id # keepId}}
       IN  IF group.key \notin DOMAIN duplicateSelections \/ idsToRemove = {}
           THEN UNCHANGED vars
           ELSE /\ SetParsed(<<[root |-> removeBookmarksFromTree(
                                   parsed[1].root, idsToRemove)]>>)
                /\ SetScanCtx(resetScan(ScanCtx))
                /\ UNCHANGED <<pendingFile, renamingFolderId, renameValue>>

\* ------------------------------------------------------------------------
\* Check service (server/index.js)
\*
\* A value of the request body is [type, kind, n]: type is what typeof
\* gives; for a number, kind is "finite" (the value is n), "Infinity",
\* "-Infinity" or "NaN".  Times are whole milliseconds.
\* ------------------------------------------------------------------------
JsUndefined == [type |-> "undefined", kind |-> "", n |-> 0]
JsNull == [type |-> "object", kind |-> "null", n |-> 0]
JsBoolean == [type |-> "boolean", kind |-> "true", n |-> 0]
\* the string "5000"
JsString == [type |-> "string", kind |-> "5000", n |-> 0]
JsNumber(n) == [type |-> "number", kind |-> "finite", n |-> n]
JsInfinity == [type |-> "number", kind |-> "Infinity", n |-> 0]
JsNegInfinity == [type |-> "number", kind |-> "-Infinity", n |-> 0]
JsNaN == [type |-> "number", kind |-> "NaN", n |-> 0]

\* a < b, for numbers other than NaN
numLess(a, b) ==
    IF a.kind = "-Infinity" THEN b.kind # "-Infinity"
    ELSE IF a.kind = "Infinity" THEN FALSE
    ELSE IF b.kind = "Infinity" THEN TRUE
    ELSE IF b.kind = "-Infinity" THEN FALSE
    ELSE a.n < b.n

mathMax(a, b) ==
    IF a.kind = "NaN" \/ b.kind = "NaN" THEN JsNaN
    ELSE IF numLess(a, b) THEN b ELSE a

mathMin(a, b) ==
    IF a.kind = "NaN" \/ b.kind = "NaN" THEN JsNaN
    ELSE IF numLess(b, a) THEN b ELSE a

\* clampTimeout without the lower limit
clampTimeoutUpper(value) ==
    IF value.type # "number" \/ value.kind = "NaN" THEN JsNumber(8000)
    ELSE mathMin(value, JsNumber(20000))

clampTimeout(value) ==
    IF value.type # "number" \/ value.kind = "NaN" THEN JsNumber(8000)
    ELSE mathMin(mathMax(value, JsNumber(1500)), JsNumber(20000))

\* new URL(value).protocol, <<>> where new URL throws: a scheme is the
\* letters before the first ":", and an http or https url needs a host
RECURSIVE schemeEnd(_, _)
schemeEnd(s, i) ==
    IF i > Len(s) THEN 0
    ELSE IF s[i] = ":" THEN (IF i = 1 THEN 0 ELSE i)
    ELSE IF s[i] \in {"/", " ", "."} THEN 0
    ELSE schemeEnd(s, i + 1)

RECURSIVE skipSlashes(_)
skipSlashes(s) ==
    IF s # <<>> /\ s[1] = "/" THEN skipSlashes(Tail(s)) ELSE s

protocolOf(value) ==
    LET s == trim(value)
        e == schemeEnd(s, 1)
    IN  IF e = 0 THEN <<>>
        ELSE LET protocol == toLowerCase(SubSeq(s, 1, e))
                 rest == skipSlashes(SubSeq(s, e + 1, Len(s)))
             IN  IF protocol \in {<<"h", "t", "t", "p", ":">>,
                                  <<"h", "t", "t", "p", "s", ":">>}
                    /\ rest = <<>>
                 THEN <<>>
                 ELSE <<protocol>>

\* isHttpUrl that accepts every string
isHttpUrlAny(value) == TRUE

isHttpUrl(value) ==
    protocolOf(value) \in {<< <<"h", "t", "t", "p", ":">> >>,
                           << <<"h", "t", "t", "p", "s", ":">> >>}

\* what attemptFetch resolves to: { response, method } or { error, method }
Responded(status, method) ==
    [kind |-> "response", status |-> status, name |-> "", method |-> method]
Failed(name, method) ==
    [kind |-> "error", status |-> 0, name |-> name, method |-> method]

normalizeError(attempt) ==
    IF attempt.name = "AbortError" THEN "Timeout" ELSE "fetch failed"

\* res.status(400).json({ ok: false, error })
BadRequest(error) ==
    [code |-> 400, ok |-> FALSE, status |-> 0, error |-> error, method |-> ""]

\* the res.json of the end of the handler (durationMs left out)
replyOf(attempt) ==
    IF attempt.kind = "error"
    THEN [code |-> 200, ok |-> FALSE, status |-> 0,
          error |-> normalizeError(attempt), method |-> attempt.method]
    ELSE [code |-> 200, ok |-> TRUE, status |-> attempt.status,
          error |-> "", method |-> attempt.method]

\* app.post('/api/check') up to its first await.  body.url is <<>> where it
\* is not a string; fetches are the calls of fetchWithTimeout so far; from
\* is the request of the scan that is answered, <<>> for any other client.
handleCheck(body, from) ==
    IF body.url = <<>> \/ trim(body.url[1]) = <<>>
    THEN [body |-> body, from |-> from, phase |-> "done", timeout |-> <<>>,
          fetches |-> <<>>, attempt |-> <<>>,
          reply |-> <<BadRequest("Missing url")>>]
    ELSE IF ~isHttpUrl(body.url[1])
    THEN [body |-> body, from |-> from, phase |-> "done", timeout |-> <<>>,
          fetches |-> <<>>, attempt |-> <<>>,
          reply |-> <<BadRequest("Only http/https URLs are supported")>>]
    ELSE LET timeout == clampTimeout(body.timeoutMs)
         IN  [body |-> body, from |-> from, phase |-> "head",
              timeout |-> <<timeout>>,
              fetches |-> <<[method |-> "HEAD", timeoutMs |-> timeout]>>,
              attempt |-> <<>>, reply |-> <<>>]

PostCheck(body) ==
    /\ Len(checks) < MaxChecks
    /\ checks' = Append(checks, handleCheck(body, <<>>))
    /\ UNCHANGED <<treeVars, scanVars>>

\* HeadSettled with the GET attempt made whatever the HEAD attempt gave
HeadSettledRetry(c, outcome) ==
    /\ checks[c].phase = "head"
    /\ outcome.method = "HEAD"
    /\ checks' = [checks EXCEPT ![c] =
         [@ EXCEPT !.phase = "get", !.attempt = <<outcome>>,
                   !.fetches = Append(@, [method |-> "GET",
                                          timeoutMs |-> checks[c].timeout[1]])]]
    /\ UNCHANGED <<treeVars, scanVars>>

\* the HEAD attempt resolves
HeadSettled(c, outcome) ==
    /\ checks[c].phase = "head"
    /\ outcome.method = "HEAD"
    /\ checks' = [checks EXCEPT ![c] =
         IF outcome.kind = "error"
            \/ (outcome.kind = "response" /\ outcome.status \in {405, 403})
         THEN [@ EXCEPT !.phase = "get", !.attempt = <<outcome>>,
                        !.fetches = Append(@, [method |-> "GET",
                                               timeoutMs |-> checks[c].timeout[1]])]
         ELSE [@ EXCEPT !.phase = "done", !.attempt = <<outcome>>,
                        !.reply = <<replyOf(outcome)>>]]
    /\ UNCHANGED <<treeVars, scanVars>>

\* the GET attempt resolves: it replaces a HEAD response, and a HEAD error
\* if it has a response itself
GetSettled(c, outcome) ==
    /\ checks[c].phase = "get"
    /\ outcome.method = "GET"
    /\ LET head == checks[c].attempt[1]
           attempt == IF head.kind = "response" \/ outcome.kind = "response"
                      THEN outcome ELSE head
       IN  checks' = [checks EXCEPT ![c] =
               [@ EXCEPT !.phase = "done", !.attempt = <<attempt>>,
                         !.reply = <<replyOf(attempt)>>]]
    /\ UNCHANGED <<treeVars, scanVars>>

ServerInit == checks = <<>>

\* ------------------------------------------------------------------------
\* The scan and the check service together
\* ------------------------------------------------------------------------
\* bookmark.url as a string
urlText(url) ==
    IF url.kind = "empty" THEN <<>>
    ELSE IF url.kind = "url"
    THEN <<"h", "t", "t", "p", ":", "/", "/">> \o url.host \o url.pathname
    ELSE url.raw

\* JSON.stringify({ url: bookmark.url, timeoutMs: 8000 })
requestBody(bookmark) ==
    [url |-> <<urlText(bookmark.url)>>, timeoutMs |-> JsNumber(8000)]

\* the request worker w of scan s is waiting for
RequestOf(s, w) == <<[scan |-> s, id |-> Bookmark(s, w).id]>>

\* the body of the reply, as response.json() gives it
dataOf(reply) ==
    [ok |-> <<reply.ok>>,
     status |-> IF reply.ok THEN <<reply.status>> ELSE <<>>]

\* the request of worker w reaches the service
CheckRequested(s, w) ==
    /\ scans[s].workers[w].phase = "fetch"
    /\ \A c \in DOMAIN checks : checks[c].from # RequestOf(s, w)
    /\ checks' = Append(checks,
                        handleCheck(requestBody(Bookmark(s, w)),
                                    RequestOf(s, w)))
    /\ UNCHANGED <<treeVars, scanVars>>

\* await fetch resumes with the response of the service
ResponseArrived(s, w) ==
    /\ FetchSettled(s, w)
    /\ \E c \in DOMAIN checks :
         /\ checks[c].from = RequestOf(s, w)
         /\ checks[c].reply # <<>>
         /\ scans'[s].workers[w].phase = "json"
         /\ scans'[s].workers[w].responseOk = (checks[c].reply[1].code = 200)

\* await response.json() resumes with the body of the response
BodyArrived(s, w) ==
    /\ ~MicroPending
    /\ scans[s].workers[w].phase = "json"
    /\ \E c \in DOMAIN checks :
         /\ checks[c].from = RequestOf(s, w)
         /\ JsonReturns(s, w, dataOf(checks[c].reply[1]))
    /\ UNCHANGED treeVars
    /\ UNCHANGED serverVars

\* ------------------------------------------------------------------------
\* Specifications
\* ------------------------------------------------------------------------
TreeIds == {n.id : n \in TreeNodes}

\* the arguments acceptSuggestion may be given: a folder as target and at
\* most MaxSources distinct folders, the root included, as sources
Suggestions ==
    LET folderIds == {n.id : n \in TreeFolders}
        lists == UNION {[1..k -> folderIds \cup {"root"}] : k \in 1..MaxSources}
    IN  [targetId : folderIds,
         sources : {l \in lists : \A i, j \in 1..Len(l) : l[i] = l[j] => i = j}]

GroupSet == {duplicateGroups[i] : i \in 1..Len(duplicateGroups)}

TreeNext ==
    \/ \E folder \in TreeFolders : StartRename(folder)
    \/ \E value \in RenameValues : ChangeRenameValue(value)
    \/ CancelRename
    \/ SaveRename
    \/ \E folder \in TreeFolders, confirm \in BOOLEAN :
           DeleteFolder(folder.id, confirm)
    \/ \E sourceId \in TreeIds \cup {"root"}, target \in TreeNodes,
          position \in DropPositions : MoveNode(sourceId, target, position)
    \/ \E suggestion \in Suggestions : AcceptSuggestion(suggestion)
    \/ \E group \in GroupSet :
         \E i \in 1..Len(group.items) :
             UpdateDuplicateSelection(group.key, group.items[i].id)
    \/ \E group \in GroupSet : RemoveDuplicateGroup(group)

ScanNext ==
    \/ StartScan
    \/ StopScan
    \/ \E s \in DOMAIN scans :
         \/ StartScanSettled(s)
         \/ \E w \in DOMAIN scans[s].workers :
              \/ WorkerResolved(s, w)
              \/ FetchAborted(s, w)
              \/ FetchSettled(s, w)
              \/ JsonSettled(s, w)
    \/ FlushTimer

ImportNext ==
    \/ \E file \in Files \cup {[hasDl |-> FALSE, items |-> <<>>]} :
           HandleFile(file)
    \/ HandleFileRead

ScanInit ==
    /\ scanState = "idle"
    /\ scanStats = ZeroStats
    /\ scanResults = <<>>
    /\ scanError = <<>>
    /\ scanAbortRef = 0
    /\ scanResultsRef = <<>>
    /\ scanStatsRef = ZeroStats
    /\ scanUpdateTimerRef = FALSE
    /\ scans = <<>>
    /\ resultsScan = <<>>

\* a document has been imported from one of Files; no scan has run
Init ==
    /\ \E file \in Files :
         /\ parsed = <<[root |-> parseBookmarkHtml(file)[1]]>>
         /\ duplicateSelections =
                syncSelections(NoSelections, duplicateGroupsOf(parsed))
    /\ dismissedSuggestions = {}
    /\ pendingFile = <<>>
    /\ renamingFolderId = <<>>
    /\ renameValue = <<>>
    /\ ScanInit
    /\ ServerInit

\* the edits of the document, as the scan sees them: each is resetScan and a
\* change of the bookmarks a later scan captures
EditNext ==
    \/ \E sourceId \in TreeIds, target \in TreeNodes, position \in DropPositions :
           MoveNode(sourceId, target, position)
    \/ \E group \in GroupSet : RemoveDuplicateGroup(group)

Next == EditNext \/ ScanNext

Spec == Init /\ [][Next]_vars

\* the files of the tree specification: every list of DT elements with at
\* most MaxNodes elements in all
Hrefs == {UrlX}

RECURSIVE ItemLists(_)
RECURSIVE Elements(_)
Elements(n) ==
    (IF n = 1 THEN {Link(href) : href \in Hrefs} ELSE {})
    \cup {FolderOf(items) : items \in ItemLists(n - 1)}

ItemLists(n) ==
    IF n = 0 THEN {<<>>}
    ELSE UNION { { <<e>> \o rest : e \in Elements(k), rest \in ItemLists(n - k) } :
                 k \in 1..n }

TreeFiles ==
    {[hasDl |-> TRUE, items |-> items] :
        items \in UNION {ItemLists(n) : n \in 0..MaxNodes}}

\* a document has been imported; only the document is edited
TreeInit ==
    /\ \E file \in TreeFiles :
         /\ parsed = <<[root |-> parseBookmarkHtml(file)[1]]>>
         /\ duplicateSelections =
                syncSelections(NoSelections, duplicateGroupsOf(parsed))
    /\ dismissedSuggestions = {}
    /\ pendingFile = <<>>
    /\ renamingFolderId = <<>>
    /\ renameValue = <<>>
    /\ ScanInit
    /\ ServerInit

TreeSpec == TreeInit /\ [][TreeNext]_vars

\* the files of the wide specification: one bookmark, and one bookmark more
\* than the scan has workers
WideFiles ==
    {[hasDl |-> TRUE, items |-> [i \in 1..n |-> Link(UrlX)]] :
        n \in {1, concurrency + 1}}

WideInit ==
    /\ \E file \in WideFiles :
         /\ parsed = <<[root |-> parseBookmarkHtml(file)[1]]>>
         /\ duplicateSelections =
                syncSelections(NoSelections, duplicateGroupsOf(parsed))
    /\ dismissedSuggestions = {}
    /\ pendingFile = <<>>
    /\ renamingFolderId = <<>>
    /\ renameValue = <<>>
    /\ ScanInit
    /\ ServerInit

\* one scan; the server answers the requests of the first MaxAnswered
\* workers, the other requests stay pending until they are aborted
WideNext ==
    \/ StartScan /\ scans = <<>>
    \/ StopScan
    \/ \E s \in DOMAIN scans :
         \/ StartScanSettled(s)
         \/ \E w \in DOMAIN scans[s].workers : FetchAborted(s, w)
         \/ \E w \in DOMAIN scans[s].workers \cap 1..MaxAnswered :
              \/ FetchSettled(s, w)
              \/ JsonSettled(s, w)
    \/ FlushTimer

WideSpec == WideInit /\ [][WideNext]_vars

\* the folder titles of the merge specification
TitleRecipes == <<"R", "e", "c", "i", "p", "e", "s">>
TitleRecipe == <<"r", "e", "c", "i", "p", "e">>
TitleAccented == <<"R", "é", "c", "i", "p", "e">>
TitleBoxRecipe == <<"b", "o", "x", " ", "r", "e", "c", "i", "p", "e">>
TitleRecipeBox == <<"r", "e", "c", "i", "p", "e", " ", "b", "o", "x">>

MergeTitles ==
    {TitleRecipes, TitleRecipe, TitleAccented, TitleBoxRecipe, TitleRecipeBox}

FolderTitled(title, items) == [tag |-> "H3", text |-> <<title>>, items |-> items]

\* the files of the merge specification: every list of DT elements with at
\* most MaxNodes elements in all, the folders titled from MergeTitles
RECURSIVE MergeItemLists(_)
RECURSIVE MergeElements(_)
MergeElements(n) ==
    (IF n = 1 THEN {Link(UrlX)} ELSE {})
    \cup {FolderTitled(title, items) :
             title \in MergeTitles, items \in MergeItemLists(n - 1)}

MergeItemLists(n) ==
    IF n = 0 THEN {<<>>}
    ELSE UNION { { <<e>> \o rest :
                     e \in MergeElements(k), rest \in MergeItemLists(n - k) } :
                 k \in 1..n }

MergeFiles ==
    {[hasDl |-> TRUE, items |-> items] :
        items \in UNION {MergeItemLists(n) : n \in 0..MaxNodes}}

\* a document has been imported; its merge suggestions are accepted or
\* dismissed
MergeInit ==
    /\ \E file \in MergeFiles :
         /\ parsed = <<[root |-> parseBookmarkHtml(file)[1]]>>
         /\ duplicateSelections =
                syncSelections(NoSelections, duplicateGroupsOf(parsed))
    /\ dismissedSuggestions = {}
    /\ pendingFile = <<>>
    /\ renamingFolderId = <<>>
    /\ renameValue = <<>>
    /\ ScanInit
    /\ ServerInit

\* the buttons of a suggestion card
MergeNext ==
    \/ \E i \in DOMAIN visibleSuggestions :
         AcceptSuggestion(
             [targetId |-> visibleSuggestions[i].targetId,
              sources |-> [j \in DOMAIN visibleSuggestions[i].sources |->
                              visibleSuggestions[i].sources[j].id]])
    \/ \E i \in DOMAIN visibleSuggestions :
         DismissSuggestion(visibleSuggestions[i].id)

MergeSpec == MergeInit /\ [][MergeNext]_vars

\* the files of the suggestion specification.  Two pairs: "bb cc" with
\* "bb cc dd" (0.85) before "aa" with "aa" (1).  A chain: "aa bb cc" scores
\* 3/4 with "cc bb aa dd", which scores 3/5 with "dd cc bb ee", which scores
\* 2/5 with the first; the last folder is empty or holds a bookmark.
\* MaxPairs pairs: a two-letter word twice (1), or once alone and once
\* followed by "zz" (0.85), in turn.  Nested: "aa" with two bookmarks, "aa"
\* holding "bb cc", and "xx" holding "yy" holding "bb cc".
TitleBbCc == <<"b", "b", " ", "c", "c">>
TitleBbCcDd == <<"b", "b", " ", "c", "c", " ", "d", "d">>
TitleAa == <<"a", "a">>
TitleXx == <<"x", "x">>
TitleYy == <<"y", "y">>
TitleAaBbCc == <<"a", "a", " ", "b", "b", " ", "c", "c">>
TitleCcBbAaDd == <<"c", "c", " ", "b", "b", " ", "a", "a", " ", "d", "d">>
TitleDdCcBbEe == <<"d", "d", " ", "c", "c", " ", "b", "b", " ", "e", "e">>

PairLetters == <<"b", "c", "f", "g", "h", "j", "k">>

PairWord(k) ==
    <<PairLetters[((k - 1) \div 7) + 1], PairLetters[((k - 1) % 7) + 1]>>

PairTitle(i) ==
    LET k == (i + 1) \div 2
    IN  IF i % 2 = 0 /\ k % 2 = 0 THEN PairWord(k) \o <<" ", "z", "z">>
        ELSE PairWord(k)

SuggestFiles ==
    { [hasDl |-> TRUE,
       items |-> <<FolderTitled(TitleBbCc, <<>>), FolderTitled(TitleAa, <<>>),
                   FolderTitled(TitleBbCcDd, <<>>), FolderTitled(TitleAa, <<>>)>>],
      [hasDl |-> TRUE,
       items |-> <<FolderTitled(TitleAaBbCc, <<>>),
                   FolderTitled(TitleCcBbAaDd, <<>>),
                   FolderTitled(TitleDdCcBbEe, <<>>)>>],
      [hasDl |-> TRUE,
       items |-> <<FolderTitled(TitleAaBbCc, <<>>),
                   FolderTitled(TitleCcBbAaDd, <<>>),
                   FolderTitled(TitleDdCcBbEe, <<Link(UrlX)>>)>>],
      [hasDl |-> TRUE,
       items |-> [i \in 1..(2 * MaxPairs) |->
                     FolderTitled(PairTitle(i), <<>>)]],
      [hasDl |-> TRUE,
       items |-> <<FolderTitled(TitleAa, <<Link(UrlX), Link(UrlX)>>),
                   FolderTitled(TitleAa, <<FolderTitled(TitleBbCc, <<>>)>>),
                   FolderTitled(TitleXx,
                       <<FolderTitled(TitleYy,
                             <<FolderTitled(TitleBbCc, <<>>)>>)>>)>>] }

SuggestInit ==
    /\ \E file \in SuggestFiles :
         /\ parsed = <<[root |-> parseBookmarkHtml(file)[1]]>>
         /\ duplicateSelections =
                syncSelections(NoSelections, duplicateGroupsOf(parsed))
    /\ dismissedSuggestions = {}
    /\ pendingFile = <<>>
    /\ renamingFolderId = <<>>
    /\ renameValue = <<>>
    /\ ScanInit
    /\ ServerInit

\* the buttons of the first MaxCards suggestion cards, and the deletion of
\* a folder
SuggestNext ==
    \/ \E i \in DOMAIN visibleSuggestions \cap 1..MaxCards :
         AcceptSuggestion(
             [targetId |-> visibleSuggestions[i].targetId,
              sources |-> [j \in DOMAIN visibleSuggestions[i].sources |->
                              visibleSuggestions[i].sources[j].id]])
    \/ \E i \in DOMAIN visibleSuggestions \cap 1..MaxCards :
         DismissSuggestion(visibleSuggestions[i].id)
    \/ \E folder \in TreeFolders : DeleteFolder(folder.id, TRUE)

SuggestSpec == SuggestInit /\ [][SuggestNext]_vars

\* the folder list of a tree of 2 * (20 + 1) empty top-level folders titled
\* as the pairs above, as listFolderInfos returns it, and its statistics
ManyFolders ==
    [i \in 1..(2 * (20 + 1)) |->
        [id |-> IdTable[i], title |-> PairTitle(i),
         pathTitles |-> <<>>, pathIds |-> <<"root">>,
         normalized |-> normalizeText(PairTitle(i)),
         tokens |-> tokenizeName(PairTitle(i))]]

ManyStats ==
    [id \in {ManyFolders[i].id : i \in DOMAIN ManyFolders} |->
        [bookmarks |-> 0, folders |-> 0, total |-> 0]]

ManySuggestions ==
    CHOOSE result \in
        {buildMergeSuggestions(folders, stats) :
            folders \in {ManyFolders}, stats \in {ManyStats}} :
        TRUE

\* the hrefs of the duplicates specification: http://x.com/, http://x.com,
\* http://Y/p/, no HREF, and a blank HREF
HostXCom == <<"x", ".", "c", "o", "m">>
UrlXComSlash == HttpUrl(HostXCom, <<"/">>)
UrlXComBare == HttpUrl(HostXCom, <<>>)
UrlYPath == HttpUrl(<<"Y">>, <<"/", "p", "/">>)
UrlBlank == RawUrl(<<" ">>)

DupHrefs == {UrlXComSlash, UrlXComBare, UrlYPath, EmptyUrl, UrlBlank}

TitleA == <<"A">>
TitleB == <<"B">>
TitleWork == <<"W", "o", "r", "k">>

LinkTitled(title, href) == [tag |-> "A", text |-> <<title>>, href |-> href]

\* one top-level folder Work with the links A -> http://x.com/ and
\* B -> http://x.com
WorkFile ==
    [hasDl |-> TRUE,
     items |-> <<FolderTitled(TitleWork,
                    <<LinkTitled(TitleA, UrlXComSlash),
                      LinkTitled(TitleB, UrlXComBare)>>)>>]

\* the files of the duplicates specification: every list of at most
\* MaxLinks links, and the Work file
DupFiles ==
    {[hasDl |-> TRUE, items |-> [i \in DOMAIN hrefs |-> Link(hrefs[i])]] :
        hrefs \in UNION {[1..n -> DupHrefs] : n \in 0..MaxLinks}}
    \cup {WorkFile}

\* a document has been imported; its duplicate groups are resolved
DupInit ==
    /\ \E file \in DupFiles :
         /\ parsed = <<[root |-> parseBookmarkHtml(file)[1]]>>
         /\ duplicateSelections =
                syncSelections(NoSelections, duplicateGroupsOf(parsed))
    /\ dismissedSuggestions = {}
    /\ pendingFile = <<>>
    /\ renamingFolderId = <<>>
    /\ renameValue = <<>>
    /\ ScanInit
    /\ ServerInit

\* the radio buttons and the remove button of a duplicate group
DupNext ==
    \/ \E group \in GroupSet :
         \E i \in 1..Len(group.items) :
             UpdateDuplicateSelection(group.key, group.items[i].id)
    \/ \E group \in GroupSet : RemoveDuplicateGroup(group)

DupSpec == DupInit /\ [][DupNext]_vars

\* the files of the load specification: lists of links in which the
\* bookmarks of http://x.com/ change their places, one of them with a second
\* group, the Work file, and a text without DL element
NoListFile == [hasDl |-> FALSE, items |-> <<>>]

LoadFiles ==
    { [hasDl |-> TRUE, items |-> <<Link(UrlXComSlash), Link(UrlXComBare)>>],
      [hasDl |-> TRUE,
       items |-> <<Link(EmptyUrl), Link(UrlXComSlash), Link(UrlXComBare)>>],
      [hasDl |-> TRUE,
       items |-> <<Link(UrlXComSlash), Link(EmptyUrl), Link(UrlXComBare)>>],
      [hasDl |-> TRUE,
       items |-> <<Link(UrlYPath), Link(UrlXComSlash), Link(UrlYPath),
                   Link(UrlXComBare)>>],
      WorkFile,
      NoListFile }

\* the state of the application when it starts: no document
LoadInit ==
    /\ parsed = <<>>
    /\ duplicateSelections = NoSelections
    /\ dismissedSuggestions = {}
    /\ pendingFile = <<>>
    /\ renamingFolderId = <<>>
    /\ renameValue = <<>>
    /\ ScanInit
    /\ ServerInit

\* files are imported one after the other; duplicate groups are resolved
LoadNext ==
    \/ \E file \in LoadFiles : HandleFile(file)
    \/ HandleFileRead
    \/ \E group \in GroupSet :
         \E i \in 1..Len(group.items) :
             UpdateDuplicateSelection(group.key, group.items[i].id)
    \/ \E group \in GroupSet : RemoveDuplicateGroup(group)

LoadSpec == LoadInit /\ [][LoadNext]_vars

\* the hrefs of the export specification: none, http://x.com/, a&< and the
\* four characters &lt;
UrlAmpLt == RawUrl(<<"a", "&", "<">>)
UrlWrittenLt == RawUrl(EntityLt)

ExportHrefs == {EmptyUrl, UrlXComSlash, UrlAmpLt, UrlWrittenLt}

\* the files of the export specification: every list of DT elements with at
\* most MaxNodes elements in all, the links of ExportHrefs
RECURSIVE ExportItemLists(_)
RECURSIVE ExportElements(_)
ExportElements(n) ==
    (IF n = 1 THEN {Link(href) : href \in ExportHrefs} ELSE {})
    \cup {FolderOf(items) : items \in ExportItemLists(n - 1)}

ExportItemLists(n) ==
    IF n = 0 THEN {<<>>}
    ELSE UNION { { <<e>> \o rest :
                     e \in ExportElements(k), rest \in ExportItemLists(n - k) } :
                 k \in 1..n }

ExportFiles ==
    {[hasDl |-> TRUE, items |-> items] :
        items \in UNION {ExportItemLists(n) : n \in 0..MaxNodes}}

\* a document has been imported; it is rearranged before it is exported
ExportInit ==
    /\ \E file \in ExportFiles :
         /\ parsed = <<[root |-> parseBookmarkHtml(file)[1]]>>
         /\ duplicateSelections =
                syncSelections(NoSelections, duplicateGroupsOf(parsed))
    /\ dismissedSuggestions = {}
    /\ pendingFile = <<>>
    /\ renamingFolderId = <<>>
    /\ renameValue = <<>>
    /\ ScanInit
    /\ ServerInit

ExportNext ==
    \/ \E sourceId \in TreeIds, target \in TreeNodes, position \in DropPositions :
           MoveNode(sourceId, target, position)
    \/ \E folder \in TreeFolders, confirm \in BOOLEAN :
           DeleteFolder(folder.id, confirm)

ExportSpec == ExportInit /\ [][ExportNext]_vars

\* the file of the rescan specification: a folder that holds a bookmark
\* without url, and a bookmark of http://X/
RescanFile ==
    [hasDl |-> TRUE, items |-> <<FolderOf(<<Link(EmptyUrl)>>), Link(UrlX)>>]

\* a document has been imported from RescanFile; no scan has run
RescanInit ==
    /\ parsed = <<[root |-> parseBookmarkHtml(RescanFile)[1]]>>
    /\ duplicateSelections = NoSelections
    /\ dismissedSuggestions = {}
    /\ pendingFile = <<>>
    /\ renamingFolderId = <<>>
    /\ renameValue = <<>>
    /\ ScanInit
    /\ ServerInit

\* the document is scanned while its folder is renamed or deleted and while
\* the file is imported anew
RescanNext ==
    \/ ScanNext
    \/ \E folder \in TreeFolders : StartRename(folder)
    \/ \E value \in RenameValues : ChangeRenameValue(value)
    \/ SaveRename
    \/ \E folder \in TreeFolders : DeleteFolder(folder.id, TRUE)
    \/ HandleFile(RescanFile)
    \/ HandleFileRead

RescanSpec == RescanInit /\ [][RescanNext]_vars

\* the requests of the check specification: url missing, blank, a word, an
\* ftp url, an http url; timeoutMs any value JSON can carry
UrlWord == <<"X">>
UrlFtp == <<"f", "t", "p", ":", "/", "/", "X", "/">>
UrlHttp == <<"h", "t", "t", "p", ":", "/", "/", "X", "/">>

CheckUrls == {<<>>, << <<" ">> >>, <<UrlWord>>, <<UrlFtp>>, <<UrlHttp>>}

TimeoutValues ==
    {JsUndefined, JsNull, JsBoolean, JsString, JsInfinity, JsNegInfinity}
    \cup {JsNumber(n) : n \in {-1, 0, 1499, 1500, 1501, 8000, 19999, 20000,
                               20001}}

CheckBodies == [url : CheckUrls, timeoutMs : TimeoutValues]

Outcomes ==
    {Responded(status, method) :
         status \in {200, 404, 403, 405}, method \in {"HEAD", "GET"}}
    \cup {Failed(name, method) :
              name \in {"AbortError", "TypeError"}, method \in {"HEAD", "GET"}}

CheckNext ==
    \/ \E body \in CheckBodies : PostCheck(body)
    \/ \E c \in DOMAIN checks, outcome \in Outcomes : HeadSettled(c, outcome)
    \/ \E c \in DOMAIN checks, outcome \in Outcomes : GetSettled(c, outcome)

\* no document is loaded; the service has received no request
CheckSpec == LoadInit /\ [][CheckNext]_vars

\* the files of the probe specification: at most two links with no HREF, the
\* word X, a blank or http://X/ as HREF, and the word X followed by one
\* http://X/ for each worker
ProbeHrefs == {EmptyUrl, RawUrl(UrlWord), UrlBlank, UrlX}

ProbeFiles ==
    {[hasDl |-> TRUE, items |-> [i \in DOMAIN hrefs |-> Link(hrefs[i])]] :
        hrefs \in UNION {[1..n -> ProbeHrefs] : n \in 1..2}}
    \cup {[hasDl |-> TRUE,
           items |-> [i \in 1..(concurrency + 1) |->
                         Link(IF i = 1 THEN RawUrl(UrlWord) ELSE UrlX)]]}

ProbeInit ==
    /\ \E file \in ProbeFiles :
         /\ parsed = <<[root |-> parseBookmarkHtml(file)[1]]>>
         /\ duplicateSelections =
                syncSelections(NoSelections, duplicateGroupsOf(parsed))
    /\ dismissedSuggestions = {}
    /\ pendingFile = <<>>
    /\ renamingFolderId = <<>>
    /\ renameValue = <<>>
    /\ ScanInit
    /\ ServerInit

\* one scan; the requests of the first MaxAnswered workers reach the service
ProbeNext ==
    \/ StartScan /\ scans = <<>>
    \/ \E s \in DOMAIN scans :
         \/ StartScanSettled(s)
         \/ \E w \in DOMAIN scans[s].workers : WorkerResolved(s, w)
         \/ \E w \in DOMAIN scans[s].workers \cap 1..MaxAnswered :
              \/ CheckRequested(s, w)
              \/ ResponseArrived(s, w)
              \/ BodyArrived(s, w)
    \/ \E c \in DOMAIN checks, outcome \in Outcomes : HeadSettled(c, outcome)
    \/ \E c \in DOMAIN checks, outcome \in Outcomes : GetSettled(c, outcome)
    \/ FlushTimer

ProbeSpec == ProbeInit /\ [][ProbeNext]_vars

\* ------------------------------------------------------------------------
\* The document is a tree
\* ------------------------------------------------------------------------
\* the ids below a list of children, in document order, with repetitions
RECURSIVE IdSeq(_)
IdSeq(children) ==
    IF children = <<>> THEN <<>>
    ELSE <<Head(children).id>>
         \o (IF Head(children).type = "folder"
             THEN IdSeq(Head(children).children) ELSE <<>>)
         \o IdSeq(Tail(children))

\* the (parent id, child id) pairs of the folders in a set of nodes
ParentPairs(folders) ==
    UNION { {<<f.id, f.children[i].id>> : i \in 1..Len(f.children)} :
            f \in folders }

DescendantIds(folder) == {n.id : n \in NodesOf(folder.children)}

IsTree(root) ==
    LET nodes == NodesOf(root.children)
        folders == {root} \cup {n \in nodes : n.type = "folder"}
        pairs == ParentPairs(folders)
    IN  /\ root.id = "root"
        /\ root.type = "folder"
        /\ \A pair \in pairs : pair[2] # "root"
        /\ \A n \in nodes :
             Cardinality({pair \in pairs : pair[2] = n.id}) = 1
        /\ \A f \in folders : f.id \notin DescendantIds(f)

\* C1: after any sequence of move, accept-merge, delete-folder,
\* remove-duplicates and rename, the document is a tree rooted at 'root':
\* every node below the root has exactly one parent and no folder is among
\* its own descendants; and moveNode, asked to put a folder before, after or
\* inside one of its descendants, returns without publishing a tree.
C1_TreeKept ==
    parsed # <<>> =>
        /\ IsTree(parsed[1].root)
        /\ \A source \in TreeFolders :
             \A target \in NodesOf(source.children) :
               \A position \in DropPositions :
                 moveNode(source.id, target, position) = <<>>

IdIndex(id) == CHOOSE i \in 1..Len(IdTable) : IdTable[i] = id

\* the ids are in the order the import gave them
InImportOrder(ids) ==
    \A i, j \in 1..Len(ids) : i < j => IdIndex(ids[i]) < IdIndex(ids[j])

\* a folder holds a folder, so that a move into a descendant can be asked
\* for, in a document that a move or a merge has reordered
C1_Witness ==
    /\ parsed # <<>>
    /\ \E f \in TreeFolders : \E g \in NodesOf(f.children) : g.type = "folder"
    /\ ~InImportOrder(IdSeq(parsed[1].root.children))

\* C2: the ids of the document, 'root' included, are pairwise distinct after
\* import and after any number of moves, merges, deletions, duplicate
\* removals and renames.
C2_IdsUnique ==
    parsed # <<>> =>
        LET ids == <<parsed[1].root.id>> \o IdSeq(parsed[1].root.children)
        IN  \A i, j \in 1..Len(ids) : ids[i] = ids[j] => i = j

\* a renamed folder in a reordered document of at least three nodes
C2_Witness ==
    /\ parsed # <<>>
    /\ \E f \in TreeFolders : f.title = <<"z">>
    /\ Len(IdSeq(parsed[1].root.children)) >= 3
    /\ ~InImportOrder(IdSeq(parsed[1].root.children))

\* ------------------------------------------------------------------------
\* The scan
\* ------------------------------------------------------------------------
StatsConsistent(stats) ==
    /\ stats.ok + stats.broken + stats.error = stats.scanned
    /\ stats.scanned <= stats.total

\* C3: the stats published to observers, by the timer flush, by the final
\* flush of startScan and by resetScan and startScan, always have
\* ok + broken + error = scanned and scanned <= total.
C3_FlushConsistent == StatsConsistent(scanStats)

\* C4: every result in the results list was pushed by a worker of the latest
\* activation of startScan: no result of an earlier scan is added to the
\* results list or the counters of the scan started after it.
C4_NoEarlierResult ==
    \A i \in DOMAIN resultsScan : resultsScan[i] = Len(scans)

\* C5: stopScan called while the scan state is idle, done, stopped or error
\* leaves scan state, stats and results unchanged; a second call during a
\* running scan finds the state stopped and is such a call.
C5_StopIdempotent ==
    [][(StopScan /\ scanState \in {"idle", "done", "stopped", "error"})
           => UNCHANGED <<scanState, scanStats, scanResults>>]_vars

OneResultEach(results, targets) ==
    /\ Len(results) = Len(targets)
    /\ \A t \in DOMAIN targets :
         Cardinality({i \in DOMAIN results : results[i].id = targets[t].id}) = 1

\* C7: when startScan settles, a scan that was never cancelled ends in done
\* with scanned = total = the size of its snapshot and exactly one result for
\* every bookmark of the snapshot; a cancelled scan ends in stopped.
C7_DoneComplete ==
    [][\A s \in DOMAIN scans :
         (~scans[s].settled /\ scans'[s].settled) =>
            IF scans[s].aborted THEN scanState' = "stopped"
            ELSE /\ scanState' = "done"
                 /\ scanStats'.total = Len(scans[s].scanTargets)
                 /\ scanStats'.scanned = scanStats'.total
                 /\ OneResultEach(scanResults', scans[s].scanTargets)]_vars

\* the prober calls a scan has in flight
InFlight(scan) ==
    {w \in DOMAIN scan.workers : scan.workers[w].phase \in {"fetch", "json"}}

\* C8: a scan over N bookmarks has exactly min(8, N) workers and never more
\* than 8 prober calls in flight.
C8_WorkersBounded ==
    \A s \in DOMAIN scans :
        ~scans[s].settled =>
            /\ Len(scans[s].workers) =
                   (IF Len(scans[s].scanTargets) < 8
                    THEN Len(scans[s].scanTargets) ELSE 8)
            /\ Cardinality(InFlight(scans[s])) <= 8

\* a scan of more than 8 bookmarks has claimed its last bookmark while 8
\* calls are in flight
C8_Witness ==
    \E s \in DOMAIN scans :
        /\ Len(scans[s].scanTargets) > 8
        /\ scans[s].cursor = Len(scans[s].scanTargets)
        /\ Cardinality(InFlight(scans[s])) = 8

\* C9: once cancellation of a scan is signalled, its cursor does not advance
\* and none of its workers starts a prober call.
C9_NoClaimAfterCancel ==
    [][\A s \in DOMAIN scans :
         (scans[s].aborted /\ ~scans'[s].settled) =>
            /\ scans'[s].cursor = scans[s].cursor
            /\ \A w \in DOMAIN scans[s].workers :
                 scans'[s].workers[w].phase \in {"fetch", "resolved"}
                     => scans'[s].workers[w] = scans[s].workers[w]]_vars

\* a worker of a cancelled scan has recorded its result and come back to the
\* claim while a bookmark of the snapshot is unclaimed
C9_Witness ==
    \E s \in DOMAIN scans :
        /\ scans[s].aborted
        /\ scans[s].cursor < Len(scans[s].scanTargets)
        /\ \E i \in DOMAIN resultsScan : resultsScan[i] = s
        /\ \A w \in DOMAIN scans[s].workers \cap 1..MaxAnswered :
             scans[s].workers[w].phase = "ended"

\* the results in the list that the workers of activation s pushed
PushedBy(s) == Cardinality({i \in DOMAIN resultsScan : resultsScan[i] = s})

\* C10: after cancellation of a scan is signalled no worker of that scan
\* appends a result or changes a counter.
C10_NoResultAfterCancel ==
    [][\A s \in DOMAIN scans :
         scans[s].aborted => PushedBy(s)' <= PushedBy(s)]_vars

\* worker w of activation s, not cancelled, comes back from its probe in this
\* step
ProbeReturns(s, w) ==
    /\ ~scans[s].aborted
    /\ scans[s].workers[w].phase \in {"fetch", "json"}
    /\ scans'[s].workers[w] # scans[s].workers[w]
    /\ ~(scans[s].workers[w].phase = "fetch"
         /\ scans'[s].workers[w].phase = "json"
         /\ scans'[s].workers[w].item = scans[s].workers[w].item)

\* the probe of worker w ends in failure in this step: fetch threw, or the
\* response was an error response
ProbeFails(s, w) ==
    /\ ProbeReturns(s, w)
    /\ \/ scans[s].workers[w].phase = "fetch"
       \/ ~scans[s].workers[w].responseOk

\* C11: a probe that fails with an exception other than a cancellation, or
\* with an error response, appends one error result for its bookmark and
\* adds one to scanned and to error; the worker claims the next unclaimed
\* bookmark if there is one; the scan state is unchanged and is never error.
C11_FailureIsolated ==
    [][\A s \in DOMAIN scans : \A w \in DOMAIN scans[s].workers :
         ProbeFails(s, w) =>
            /\ scanResultsRef' =
                   Append(scanResultsRef,
                          ErrorResult(Bookmark(s, w), ProbeError))
            /\ scanStatsRef' =
                   [scanStatsRef EXCEPT !.scanned = @ + 1, !.error = @ + 1]
            /\ scanState' = scanState
            /\ scanState' # "error"
            /\ ~scans'[s].aborted
            /\ IF scans[s].cursor < Len(scans[s].scanTargets)
               THEN /\ scans'[s].cursor = scans[s].cursor + 1
                    /\ scans'[s].workers[w].phase = "fetch"
                    /\ scans'[s].workers[w].item = scans[s].cursor
               ELSE scans'[s].workers[w].phase = "ended"]_vars

\* the only result so far is an error, and the worker that recorded it holds
\* the last bookmark of a snapshot larger than the number of workers
C11_Witness ==
    \E s \in DOMAIN scans :
        /\ ~scans[s].aborted
        /\ scanState = "running"
        /\ Len(scans[s].scanTargets) > Len(scans[s].workers)
        /\ scans[s].cursor = Len(scans[s].scanTargets)
        /\ Len(scanResultsRef) = 1
        /\ scanResultsRef[1].status = "error"
        /\ \E w \in DOMAIN scans[s].workers :
             /\ scans[s].workers[w].phase = "fetch"
             /\ scans[s].workers[w].item = Len(scans[s].scanTargets) - 1

\* the number of results of a status in a list
CountStatus(results, status) ==
    Cardinality({i \in DOMAIN results : results[i].status = status})

\* the counters are the numbers of results of each status
CountersMatch(results, stats) ==
    /\ stats.scanned = Len(results)
    /\ stats.ok = CountStatus(results, "ok")
    /\ stats.broken = CountStatus(results, "broken")
    /\ stats.error = CountStatus(results, "error")

\* C12: when a worker receives the body data of a response, the result it
\* appends is error if data.ok is false, and for a prober answer with ok
\* true and a status code it is broken if the code is >= 400 and ok if it is
\* < 400; scanned and exactly the counter of that status grow by one, so the
\* counters always are the numbers of results of each status (answers 200,
\* 404 and a thrown exception: ok = 1, broken = 1, error = 1, scanned = 3).
C12_Classified ==
    [][/\ \A s \in DOMAIN scans : \A w \in DOMAIN scans[s].workers :
            scans[s].workers[w].phase = "json" =>
              \A data \in DataValues :
                (JsonReturns(s, w, data) /\ UNCHANGED treeVars) =>
                   LET status == scanResultsRef'[Len(scanResultsRef')].status
                   IN  /\ Len(scanResultsRef') = Len(scanResultsRef) + 1
                       /\ status \in {"ok", "broken", "error"}
                       /\ data.ok = <<FALSE>> => status = "error"
                       /\ (/\ scans[s].workers[w].responseOk
                           /\ data.ok = <<TRUE>>
                           /\ data.status # <<>>) =>
                              status = IF data.status[1] >= 400
                                       THEN "broken" ELSE "ok"
                       /\ scanStatsRef'.scanned = scanStatsRef.scanned + 1
                       /\ scanStatsRef'.ok = scanStatsRef.ok
                              + (IF status = "ok" THEN 1 ELSE 0)
                       /\ scanStatsRef'.broken = scanStatsRef.broken
                              + (IF status = "broken" THEN 1 ELSE 0)
                       /\ scanStatsRef'.error = scanStatsRef.error
                              + (IF status = "error" THEN 1 ELSE 0)
       /\ CountersMatch(scanResultsRef', scanStatsRef')]_vars

\* three bookmarks have been answered: one ok, one broken, one error
C12_Witness ==
    /\ Len(scanResultsRef) = 3
    /\ {scanResultsRef[i].status : i \in 1..3} = {"ok", "broken", "error"}
    /\ scanStatsRef.scanned = 3
    /\ scanStatsRef.ok = 1
    /\ scanStatsRef.broken = 1
    /\ scanStatsRef.error = 1

\* sourceId is the root, or a folder that has the target below it
IsAncestor(sourceId, target) ==
    \/ sourceId = "root"
    \/ \E source \in TreeFolders :
         source.id = sourceId /\ target.id \in DescendantIds(source)

\* C13: moveNode returns without publishing a tree, so the document is
\* unchanged, whenever the source is the target, the source is an ancestor of
\* the target, or the position is inside and the target is not a folder.
C13_MoveRejected ==
    parsed # <<>> =>
        \A sourceId \in TreeIds \cup {"root"} :
          \A target \in TreeNodes :
            \A position \in DropPositions :
              (\/ sourceId = target.id
               \/ IsAncestor(sourceId, target)
               \/ position = "inside" /\ target.type # "folder")
                  => moveNode(sourceId, target, position) = <<>>

\* a reordered document in which each of the three rejected drops can be
\* asked for: a folder holds a folder, and there is a bookmark
C13_Witness ==
    /\ parsed # <<>>
    /\ \E f \in TreeFolders : \E g \in NodesOf(f.children) : g.type = "folder"
    /\ \E n \in TreeNodes : n.type = "bookmark"
    /\ ~InImportOrder(IdSeq(parsed[1].root.children))

\* the places of a node id in a tree: [parent, index (from 1), count]
PlacesOf(root, id) ==
    LET folders == {root} \cup {n \in NodesOf(root.children) : n.type = "folder"}
    IN  UNION { { [parent |-> f.id, index |-> i, count |-> Len(f.children)] :
                  i \in {j \in DOMAIN f.children : f.children[j].id = id} } :
                f \in folders }

\* in the tree, source has one place and it is the one asked for
PlacedAt(root, sourceId, target, position) ==
    \E s \in PlacesOf(root, sourceId) :
        /\ PlacesOf(root, sourceId) = {s}
        /\ IF position = "inside"
           THEN /\ s.parent = target.id
                /\ s.index = s.count
           ELSE \E t \in PlacesOf(root, target.id) :
                    /\ t.parent = s.parent
                    /\ s.index = IF position = "before" THEN t.index - 1
                                 ELSE t.index + 1

\* C14: the tree an accepted move publishes has the source immediately
\* before the target in the target's parent (before), immediately after it
\* (after), or as the last child of the target folder (inside), also when
\* the source preceded the target under the same parent.
C14_MovePlaced ==
    parsed # <<>> =>
        \A sourceId \in TreeIds :
          \A target \in TreeNodes :
            \A position \in DropPositions :
              LET next == moveNode(sourceId, target, position)
              IN  (next # <<>> /\ next[1].reset) =>
                      PlacedAt(next[1].root, sourceId, target, position)

\* in a reordered document a move is accepted whose source precedes its
\* target under the same parent
C14_Witness ==
    /\ parsed # <<>>
    /\ ~InImportOrder(IdSeq(parsed[1].root.children))
    /\ \E target \in TreeNodes :
         \E t \in PlacesOf(parsed[1].root, target.id) :
           \E sourceId \in TreeIds :
             \E s \in PlacesOf(parsed[1].root, sourceId) :
                /\ s.parent = t.parent
                /\ s.index < t.index
                /\ moveNode(sourceId, target, "before") # <<>>
                /\ moveNode(sourceId, target, "after") # <<>>

\* the children of a folder once source is taken out of the tree and its
\* children are put after those of the folder targetId
RECURSIVE MergedChildren(_, _, _)
MergedChildren(children, source, targetId) ==
    IF children = <<>> THEN <<>>
    ELSE LET child == Head(children)
             rest == MergedChildren(Tail(children), source, targetId)
         IN  IF child.id = source.id THEN rest
             ELSE IF child.type # "folder" THEN <<child>> \o rest
             ELSE <<[child EXCEPT !.children =
                        MergedChildren(child.children, source, targetId)
                        \o (IF child.id = targetId THEN source.children
                            ELSE <<>>)]>> \o rest

\* one source merged: a folder of the tree other than the target and not
\* above it; any other source leaves the tree as it is
MergeOne(root, sourceId, targetId) ==
    LET sources == {n \in NodesOf(root.children) :
                       /\ n.id = sourceId
                       /\ n.type = "folder"
                       /\ sourceId # targetId
                       /\ targetId \notin DescendantIds(n)}
        source == CHOOSE n \in sources : TRUE
    IN  IF sources = {} THEN root
        ELSE [root EXCEPT !.children =
                 MergedChildren(root.children, source, targetId)
                 \o (IF root.id = targetId THEN source.children ELSE <<>>)]

RECURSIVE MergeInOrder(_, _, _)
MergeInOrder(root, sourceIds, targetId) ==
    IF sourceIds = <<>> THEN root
    ELSE MergeInOrder(MergeOne(root, Head(sourceIds), targetId),
                      Tail(sourceIds), targetId)

\* the source lists of at most MaxSources ids of the document, repeated ids
\* and ids of bookmarks included
SourceLists ==
    UNION {[1..k -> TreeIds \cup {"root"}] : k \in 0..MaxSources}

\* C15: mergeFoldersIntoTarget takes the sources in the given order, each
\* against the tree the preceding ones left: a source that is a folder, is
\* not the target and is not above the target is removed from its place and
\* its children are appended, in their order, after the target's children;
\* any other source changes nothing.
C15_MergeSequential ==
    parsed # <<>> =>
        \A targetId \in {n.id : n \in TreeFolders} \cup {"root"} :
          \A sourceIds \in SourceLists :
            mergeFoldersIntoTarget(parsed[1].root, sourceIds, targetId)
                = MergeInOrder(parsed[1].root, sourceIds, targetId)

\* a reordered document with a folder f that holds a folder g, and a third
\* folder h: merging f and then g into h takes g from where the merge of f
\* left it
C15_Witness ==
    /\ parsed # <<>>
    /\ ~InImportOrder(IdSeq(parsed[1].root.children))
    /\ \E f, h \in TreeFolders :
         \E g \in NodesOf(f.children) :
            /\ g.type = "folder"
            /\ h.id \notin {f.id, g.id}
            /\ LET merged == mergeFoldersIntoTarget(parsed[1].root,
                                                    <<f.id, g.id>>, h.id)
               IN  /\ merged # parsed[1].root
                   /\ {n.id : n \in NodesOf(merged.children)} = {h.id}

\* the ids of the folders a suggestion names with its target, as pairs
\* <<source, target>>
SuggestedPairs ==
    UNION { {<<mergeSuggestions[i].sources[j].id, mergeSuggestions[i].targetId>> :
               j \in DOMAIN mergeSuggestions[i].sources} :
            i \in DOMAIN mergeSuggestions }

\* the folder with id upper has the node with id lower below it
IsAbove(upper, lower) ==
    \E f \in TreeFolders : f.id = upper /\ lower \in DescendantIds(f)

\* C16: no suggestion of buildMergeSuggestions names a source that is above
\* its target, and none names its target as a source.
C16_SourceNotAboveTarget ==
    \A pair \in SuggestedPairs :
        /\ ~IsAbove(pair[1], pair[2])
        /\ pair[1] # pair[2]

\* a suggestion is listed for a document in which a folder holds a folder
C16_Witness ==
    /\ mergeSuggestions # <<>>
    /\ \E f \in TreeFolders : \E g \in NodesOf(f.children) :
          /\ g.type = "folder"
          /\ \E pair \in SuggestedPairs : g.id \in {pair[1], pair[2]}

\* C17: in every suggestion no source is above or below the target.
C17_NoKinMerged ==
    \A pair \in SuggestedPairs :
        /\ ~IsAbove(pair[1], pair[2])
        /\ ~IsAbove(pair[2], pair[1])

\* C18: for a document of two empty sibling folders titled Recipes and
\* recipe, the two score at least 0.6 against each other and there is
\* exactly one suggestion, whose target is Recipes.
C18_RecipesScenario ==
    LET infos == folderInfosOf(parsed)
    IN  (/\ parsed # <<>>
         /\ Len(parsed[1].root.children) = 2
         /\ \A i \in 1..2 : /\ parsed[1].root.children[i].type = "folder"
                            /\ parsed[1].root.children[i].children = <<>>
         /\ {parsed[1].root.children[i].title : i \in 1..2}
                = {TitleRecipes, TitleRecipe})
        => /\ ~ScoreLess(scoreSimilarity(infos[1], infos[2]), Frac(3, 5))
           /\ Len(mergeSuggestions) = 1
           /\ \E f \in TreeFolders :
                 /\ f.id = mergeSuggestions[1].targetId
                 /\ f.title = TitleRecipes

\* the bookmarks buildDuplicateGroups may group: a non-empty url and a
\* non-empty normalized key
Keyed(items) ==
    {i \in 1..Len(items) :
        /\ items[i].url.kind # "empty"
        /\ normalizeUrl(items[i].url) # <<>>}

\* the ids of the bookmarks of a key
IdsOfKey(items, key) ==
    {items[i].id : i \in {j \in Keyed(items) : normalizeUrl(items[j].url) = key}}

\* the keys shared by at least two bookmarks
SharedKeys(items) ==
    {key \in {normalizeUrl(items[i].url) : i \in Keyed(items)} :
        Cardinality(IdsOfKey(items, key)) >= 2}

GroupIds(group) == {group.items[i].id : i \in 1..Len(group.items)}

\* the groups as a set of [key, ids]
Grouping(groups) ==
    {[key |-> groups[i].key, ids |-> GroupIds(groups[i])] : i \in 1..Len(groups)}

\* every order of a list
Reorderings(items) ==
    {[i \in 1..Len(items) |-> items[f[i]]] : f \in Permutations(1..Len(items))}

\* C19: buildDuplicateGroups returns one group for each normalized key that
\* at least two bookmarks with a non-empty url and a non-empty key share, each
\* group holds all and only the bookmarks of its key, the groups are in
\* descending order of their member count, and the grouping is the same for
\* every order of the input list.
C19_GroupsExact ==
    parsed # <<>> =>
        LET items == flattenBookmarks(parsed[1].root)
            groups == buildDuplicateGroups(items)
        IN  /\ {groups[i].key : i \in 1..Len(groups)} = SharedKeys(items)
            /\ \A i, j \in 1..Len(groups) : groups[i].key = groups[j].key => i = j
            /\ \A i \in 1..Len(groups) :
                  /\ GroupIds(groups[i]) = IdsOfKey(items, groups[i].key)
                  /\ Cardinality(GroupIds(groups[i])) = Len(groups[i].items)
            /\ \A i, j \in 1..Len(groups) :
                  i < j => Len(groups[i].items) >= Len(groups[j].items)
            /\ \A other \in Reorderings(items) :
                  Grouping(buildDuplicateGroups(other)) = Grouping(groups)

\* two groups are listed, the larger one first although the document starts
\* with a bookmark of the smaller one, and the larger one holds bookmarks of
\* different urls
C19_Witness ==
    /\ parsed # <<>>
    /\ Len(duplicateGroups) = 2
    /\ Len(duplicateGroups[1].items) > Len(duplicateGroups[2].items)
    /\ flattenBookmarks(parsed[1].root)[1].id \in GroupIds(duplicateGroups[2])
    /\ \E i, j \in 1..Len(duplicateGroups[1].items) :
          duplicateGroups[1].items[i].url # duplicateGroups[1].items[j].url

\* the document imported from WorkFile
WorkDocument == <<[root |-> parseBookmarkHtml(WorkFile)[1]]>>

WorkFolder == WorkDocument[1].root.children[1]
BookmarkA == WorkFolder.children[1]
BookmarkB == WorkFolder.children[2]

\* C20: importing one top-level folder Work with the links A -> http://x.com/
\* and B -> http://x.com yields exactly one duplicate group, with key x.com,
\* that holds both; removing the others while A is kept leaves A as the only
\* child of Work.
C20_WorkScenario ==
    /\ [](parsed = WorkDocument =>
            /\ Len(duplicateGroups) = 1
            /\ duplicateGroups[1].key = HostXCom
            /\ GroupIds(duplicateGroups[1]) = {BookmarkA.id, BookmarkB.id})
    /\ [][(/\ parsed = WorkDocument
           /\ \E group \in GroupSet :
                 /\ duplicateSelections[group.key] = BookmarkA.id
                 /\ RemoveDuplicateGroup(group))
          => /\ Len(parsed'[1].root.children) = 1
             /\ parsed'[1].root.children[1].id = WorkFolder.id
             /\ parsed'[1].root.children[1].title = TitleWork
             /\ parsed'[1].root.children[1].children = <<BookmarkA>>]_vars

\* the keep selection of every group is one of its members
SelectionsValid ==
    /\ DOMAIN duplicateSelections =
           {duplicateGroups[i].key : i \in 1..Len(duplicateGroups)}
    /\ \A i \in 1..Len(duplicateGroups) :
          duplicateSelections[duplicateGroups[i].key]
              \in GroupIds(duplicateGroups[i])

\* the selection a recomputation has to give a group
KeptOrFirst(prev, group) ==
    IF group.key \in DOMAIN prev /\ prev[group.key] \in GroupIds(group)
    THEN prev[group.key]
    ELSE group.items[1].id

\* C21: the keep selection of every duplicate group is the id of a member of
\* the group, and after a step that publishes a document it is the selection
\* of before when that id is in the new group and the first item of the
\* group otherwise.
C21_SelectionKept ==
    /\ []SelectionsValid
    /\ [][parsed' # parsed =>
            \A groups \in {duplicateGroupsOf(parsed')} :
                \A i \in 1..Len(groups) :
                    duplicateSelections'[groups[i].key]
                        = KeptOrFirst(duplicateSelections, groups[i])]_vars

\* a document is current whose group keeps a selection that is not its first
\* item although another of its bookmarks precedes the group
C21_Witness ==
    /\ parsed # <<>>
    /\ Len(duplicateGroups) = 1
    /\ duplicateSelections[duplicateGroups[1].key]
           # duplicateGroups[1].items[1].id
    /\ flattenBookmarks(parsed[1].root)[1].id \notin GroupIds(duplicateGroups[1])

\* a node without its children
Label(node) ==
    IF node.type = "folder"
    THEN [id |-> node.id, type |-> node.type, title |-> node.title]
    ELSE node

FoldersOf(root) ==
    {root} \cup {n \in NodesOf(root.children) : n.type = "folder"}

\* out is root without the nodes of the ids in gone, and nothing else differs:
\* the remaining nodes are in the document order of before, under the parents
\* of before, with the fields of before
WithoutOnly(out, root, gone) ==
    LET Stays(id) == id \notin gone
    IN  /\ Label(out) = Label(root)
        /\ IdSeq(out.children) = SelectSeq(IdSeq(root.children), Stays)
        /\ ParentPairs(FoldersOf(out))
               = {pair \in ParentPairs(FoldersOf(root)) : pair[2] \notin gone}
        /\ {Label(n) : n \in NodesOf(out.children)}
               = {Label(n) : n \in {m \in NodesOf(root.children) : m.id \notin gone}}

\* C22: removeBookmarksFromTree(tree, idSet) removes the bookmarks whose id
\* is in idSet at every depth and nothing else; every folder stays at its
\* place, emptied or not, also when its id is in idSet.
C22_OnlyBookmarksRemoved ==
    parsed # <<>> =>
        \A idSet \in SUBSET ({"root"} \cup TreeIds) :
            WithoutOnly(removeBookmarksFromTree(parsed[1].root, idSet),
                        parsed[1].root,
                        {n.id : n \in {m \in TreeNodes :
                                          m.type = "bookmark" /\ m.id \in idSet}})

\* the document has a folder that holds nothing but a bookmark, and another
\* bookmark beside the folder
C22_Witness ==
    /\ parsed # <<>>
    /\ \E f \in TreeFolders :
          /\ Len(f.children) = 1
          /\ f.children[1].type = "bookmark"
    /\ \E i \in 1..Len(parsed[1].root.children) :
          parsed[1].root.children[i].type = "bookmark"

\* C23: an import whose text has no list (parseBookmarkHtml throws) leaves
\* the document as it was: a document loaded before is still the current
\* document afterwards.
C23_FailedImportKeeps ==
    [][(/\ pendingFile # <<>>
        /\ parseBookmarkHtml(pendingFile[1]) = <<>>
        /\ HandleFileRead)
       => parsed' = parsed]_vars

\* a node without its id and its title: the url of a bookmark, the shapes of
\* the children of a folder
RECURSIVE Shape(_)
Shape(node) ==
    IF node.type = "bookmark" THEN [url |-> node.url]
    ELSE [children |-> [i \in 1..Len(node.children) |-> Shape(node.children[i])]]

UrlsOf(root) ==
    LET items == flattenBookmarks(root)
    IN  [i \in 1..Len(items) |-> items[i].url]

\* C24: parsing the text buildBookmarkHtml gives for the document yields a
\* tree with as many bookmarks, as many folders, the same nesting and the
\* same bookmark urls in the same order.
C24_RoundTrip ==
    parsed # <<>> =>
        \A again \in {parseBookmarkHtml(
                          parseFromString(buildBookmarkHtml(parsed[1].root)))} :
            /\ again # <<>>
            /\ Len(flattenBookmarks(again[1])) = Len(flattenBookmarks(parsed[1].root))
            /\ Cardinality(FoldersOf(again[1])) = Cardinality(FoldersOf(parsed[1].root))
            /\ Shape(again[1]) = Shape(parsed[1].root)
            /\ UrlsOf(again[1]) = UrlsOf(parsed[1].root)

\* the document has a folder in a folder and a bookmark whose url is written
\* with character references, and its nodes are no longer in import order
C24_Witness ==
    /\ parsed # <<>>
    /\ \E f \in TreeFolders : \E g \in NodesOf(f.children) : g.type = "folder"
    /\ \E n \in TreeNodes :
          /\ n.type = "bookmark"
          /\ escapeHref(n.url) # n.url
    /\ ~InImportOrder(IdSeq(parsed[1].root.children))

RootLabel == [id |-> "root", type |-> "folder", title |-> RootTitle]

\* the titles saveRename passes to updateFolderTitle
SavedTitles == {trim(value) : value \in RenameValues} \ {<<>>}

\* C25: in every reachable document the root is a folder with id 'root' and
\* the title of the import, and removeNodeById, updateFolderTitle and
\* mergeFoldersIntoTarget return a root that is neither removed nor retitled
\* whatever id of the document, 'root' included, they are given.
C25_RootKept ==
    parsed # <<>> =>
        /\ Label(parsed[1].root) = RootLabel
        /\ \A id \in TreeIds \cup {"root"} :
              /\ Label(removeNodeById(parsed[1].root, id).folder) = RootLabel
              /\ \A removed \in {removeNodeById(parsed[1].root, id).removed} :
                    removed # <<>> => removed[1].id # "root"
        /\ \A suggestion \in Suggestions :
              Label(mergeFoldersIntoTarget(parsed[1].root, suggestion.sources,
                                           suggestion.targetId)) = RootLabel
        /\ \A id \in TreeIds \cup {"root"}, title \in SavedTitles :
              Label(updateFolderTitle(parsed[1].root, id, title)) = RootLabel

\* out is root with the title of the folder of the id replaced, and nothing
\* else differs
RetitledOnly(out, root, id, title) ==
    LET Expected(n) == IF n.id = id /\ n.type = "folder"
                       THEN [Label(n) EXCEPT !.title = title]
                       ELSE Label(n)
    IN  /\ Label(out) = Expected(root)
        /\ IdSeq(out.children) = IdSeq(root.children)
        /\ ParentPairs(FoldersOf(out)) = ParentPairs(FoldersOf(root))
        /\ {Label(n) : n \in NodesOf(out.children)}
               = {Expected(n) : n \in NodesOf(root.children)}

\* C26: saveRename with an empty or blank value leaves the document as it is;
\* otherwise the document differs from the one before only in the title of
\* the folder being renamed, which is the trimmed value.
C26_RenameOnlyTitle ==
    [][SaveRename =>
          IF trim(renameValue) = <<>> THEN parsed' = parsed
          ELSE /\ parsed' # <<>>
               /\ RetitledOnly(parsed'[1].root, parsed[1].root,
                               renamingFolderId[1], trim(renameValue))]_vars

\* a folder that holds a node carries a title given by a rename
C26_Witness ==
    /\ parsed # <<>>
    /\ \E f \in TreeFolders :
          /\ f.title \in SavedTitles
          /\ f.children # <<>>

\* the pairs (a, b) of ids of which a precedes b among the children of one
\* folder
SiblingOrder(root) ==
    UNION { UNION { {<<f.children[i].id, f.children[j].id>> :
                       j \in (i + 1)..Len(f.children)} :
                    i \in 1..Len(f.children) } :
            f \in FoldersOf(root) }

\* no two siblings of root, the moved ones aside, are siblings of out in the
\* other order
OrderKept(out, root, moved) ==
    \A pair \in SiblingOrder(root) :
        (pair[1] \notin moved /\ pair[2] \notin moved)
            => <<pair[2], pair[1]>> \notin SiblingOrder(out)

\* C27: a move, an accepted merge, a folder deletion and a removal of
\* duplicates keep the relative order of every two nodes that are children
\* of one folder before and of one folder after, the moved node aside.
C27_OrderKept ==
    [][(parsed # <<>> /\ parsed' # <<>> /\ parsed' # parsed) =>
          \A out \in {parsed'[1].root} :
             /\ \A sourceId \in TreeIds \cup {"root"}, target \in TreeNodes,
                   position \in DropPositions :
                   (/\ moveNode(sourceId, target, position) # <<>>
                    /\ moveNode(sourceId, target, position)[1].root = out
                    /\ MoveNode(sourceId, target, position))
                       => OrderKept(out, parsed[1].root, {sourceId})
             /\ (\/ \E suggestion \in Suggestions :
                       /\ mergeFoldersIntoTarget(parsed[1].root,
                              suggestion.sources, suggestion.targetId) = out
                       /\ AcceptSuggestion(suggestion)
                 \/ \E folder \in TreeFolders :
                       /\ removeNodeById(parsed[1].root, folder.id).folder = out
                       /\ DeleteFolder(folder.id, TRUE)
                 \/ \E group \in GroupSet : RemoveDuplicateGroup(group))
                    => OrderKept(out, parsed[1].root, {})]_vars

\* the nodes of the document are no longer in import order and a folder
\* holds two nodes
C27_Witness ==
    /\ parsed # <<>>
    /\ ~InImportOrder(IdSeq(parsed[1].root.children))
    /\ SiblingOrder(parsed[1].root) # {}

\* the published results and stats are the accumulated ones and no flush is
\* scheduled
Flushed ==
    /\ scanResults = scanResultsRef
    /\ scanStats = scanStatsRef
    /\ ~scanUpdateTimerRef

\* C28: when startScan settles, its workers ended, the results and the stats
\* published are the accumulated ones, every published result was
\* accumulated by that scan, and no flush timer is pending.
C28_FinalFlush ==
    [][\A s \in DOMAIN scans :
         (~scans[s].settled /\ scans'[s].settled) =>
            /\ Flushed'
            /\ \A i \in DOMAIN resultsScan' : resultsScan'[i] = s]_vars

\* the scan state is the one resetScan leaves
Discarded ==
    /\ scanState = "idle"
    /\ scanResults = <<>>
    /\ scanResultsRef = <<>>
    /\ scanStats = ZeroStats
    /\ scanStatsRef = ZeroStats

\* startScan was called in this step
ScanStarted == Len(scans') > Len(scans) \/ scanError' = <<NoBookmarks>>

\* C29: a step that changes the document while the scan state is running
\* cancels the running scan and leaves the scan state idle with results and
\* counters emptied, and an idle scan state stays idle until startScan is
\* called (a call of stopScan, which the idle view does not offer, aside).
C29_MutationDiscards ==
    /\ [][(scanState = "running" /\ parsed' # parsed) =>
             /\ Discarded'
             /\ \A s \in DOMAIN scans :
                   ~AllEnded(scans[s]) => scans'[s].aborted]_vars
    /\ [][(scanState = "idle" /\ scanState' # "idle")
             => (ScanStarted \/ StopScan)]_vars

\* ------------------------------------------------------------------------
\* C30
\* ------------------------------------------------------------------------
\* min(max(value, 1500), 20000), 8000 for what is not a number or is NaN
Clamped(value) ==
    IF value.type # "number" \/ value.kind = "NaN" THEN JsNumber(8000)
    ELSE IF value.kind = "Infinity" THEN JsNumber(20000)
    ELSE IF value.kind = "-Infinity" THEN JsNumber(1500)
    ELSE JsNumber(IF value.n < 1500 THEN 1500
                  ELSE IF value.n > 20000 THEN 20000 ELSE value.n)

InRange(timeoutMs) ==
    /\ timeoutMs.type = "number"
    /\ timeoutMs.kind = "finite"
    /\ 1500 <= timeoutMs.n /\ timeoutMs.n <= 20000

\* C30: the timeout of every fetch the check service makes is a number of
\* [1500, 20000], the request's timeoutMs clamped; clampTimeout gives 8000
\* for a value that is not a number or is NaN and min(max(value, 1500),
\* 20000) for any other number.
C30_TimeoutClamped ==
    /\ \A c \in DOMAIN checks :
         \A f \in DOMAIN checks[c].fetches :
             /\ InRange(checks[c].fetches[f].timeoutMs)
             /\ checks[c].fetches[f].timeoutMs =
                    Clamped(checks[c].body.timeoutMs)
    /\ \A value \in TimeoutValues \cup {JsNaN} :
         clampTimeout(value) = Clamped(value)

\* a request with timeoutMs 20001 has made its HEAD and its GET fetch
C30_Witness ==
    \E c \in DOMAIN checks :
        /\ checks[c].body.timeoutMs = JsNumber(20001)
        /\ Len(checks[c].fetches) = 2

\* ------------------------------------------------------------------------
\* C31
\* ------------------------------------------------------------------------
\* the HEAD attempt failed or was answered 403 or 405
RetryWanted(attempt) ==
    attempt.method = "HEAD"
    /\ (attempt.kind = "error" \/ attempt.status \in {403, 405})

\* C31: the fetches of a check are HEAD, or HEAD and then GET, never more;
\* the GET fetch is made only at the step where the HEAD attempt has failed
\* or been answered 403 or 405; a check that made a fetch answers ok: true
\* exactly when the attempt it ends with has a response, and a check that
\* made none does not answer ok: true.
C31_HeadThenGet ==
    /\ [](\A c \in DOMAIN checks :
            LET check == checks[c]
            IN  /\ Len(check.fetches) <= 2
                /\ \A f \in DOMAIN check.fetches :
                       check.fetches[f].method = IF f = 1 THEN "HEAD" ELSE "GET"
                /\ check.reply # <<>> =>
                       IF check.fetches = <<>> THEN ~check.reply[1].ok
                       ELSE check.reply[1].ok
                                <=> check.attempt[1].kind = "response")
    /\ [][\A c \in DOMAIN checks :
             Len(checks'[c].fetches) > Len(checks[c].fetches) =>
                 /\ checks[c].phase = "head"
                 /\ RetryWanted(checks'[c].attempt[1])]_vars

\* a check has made two fetches and answered ok: true by its GET attempt
C31_Witness ==
    \E c \in DOMAIN checks :
        /\ Len(checks[c].fetches) = 2
        /\ checks[c].reply # <<>>
        /\ checks[c].reply[1].ok
        /\ checks[c].reply[1].method = "GET"

\* ------------------------------------------------------------------------
\* C32
\* ------------------------------------------------------------------------
\* the bookmark of the document with the id
BookmarkOf(id) ==
    LET bookmarks == flattenBookmarks(parsed[1].root)
    IN  bookmarks[CHOOSE i \in DOMAIN bookmarks : bookmarks[i].id = id]

\* the url is a string that is not empty and is no http or https url
Malformed(url) == url.kind = "raw"

\* C32: the service answers the request for a bookmark whose url is not a
\* well-formed http or https url with status 400 and makes no fetch for it;
\* when that answer reaches the scan, one error result for that bookmark is
\* appended, scanned and error grow by one, the scan is not cancelled, its
\* state and the other workers are unchanged, and the worker claims the next
\* unclaimed bookmark if there is one.
C32_MalformedRejected ==
    /\ [](\A c \in DOMAIN checks :
            (checks[c].from # <<>>
             /\ Malformed(BookmarkOf(checks[c].from[1].id).url)) =>
                /\ checks[c].fetches = <<>>
                /\ checks[c].reply # <<>>
                /\ checks[c].reply[1].code = 400
                /\ ~checks[c].reply[1].ok)
    /\ [][\A s \in DOMAIN scans : \A w \in DOMAIN scans[s].workers :
             (/\ scans[s].workers[w].phase = "json"
              /\ Malformed(Bookmark(s, w).url)
              /\ BodyArrived(s, w)) =>
                /\ scanResultsRef' =
                       Append(scanResultsRef,
                              ErrorResult(Bookmark(s, w), ProbeError))
                /\ scanStatsRef' =
                       [scanStatsRef EXCEPT !.scanned = @ + 1, !.error = @ + 1]
                /\ scanState' = scanState
                /\ ~scans'[s].aborted
                /\ \A v \in DOMAIN scans[s].workers \ {w} :
                       scans'[s].workers[v] = scans[s].workers[v]
                /\ IF scans[s].cursor < Len(scans[s].scanTargets)
                   THEN /\ scans'[s].cursor = scans[s].cursor + 1
                        /\ scans'[s].workers[w].item = scans[s].cursor
                        /\ scans'[s].workers[w].phase \in {"fetch", "resolved"}
                   ELSE scans'[s].workers[w].phase = "ended"]_vars

\* the request for a bookmark with the word X as url was answered without a
\* fetch, its error result is recorded, and a later result of the scan is ok
C32_Witness ==
    /\ parsed # <<>>
    /\ \E c \in DOMAIN checks :
         /\ checks[c].from # <<>>
         /\ Malformed(BookmarkOf(checks[c].from[1].id).url)
         /\ checks[c].fetches = <<>>
         /\ \E i, j \in DOMAIN scanResultsRef :
              /\ i < j
              /\ scanResultsRef[i] =
                     ErrorResult(BookmarkOf(checks[c].from[1].id), ProbeError)
              /\ scanResultsRef[j].status = "ok"

\* ------------------------------------------------------------------------
\* C33
\* ------------------------------------------------------------------------
NoUrl(bookmark) == bookmark.url.kind = "empty"

\* C33: no request is made for a bookmark without url, neither by a worker
\* nor at the service; the worker that claimed it appends the error result
\* 'Missing URL' for it and adds one to scanned and to error, and no other
\* result is ever recorded for such a bookmark.
C33_MissingUrl ==
    /\ [](/\ \A s \in DOMAIN scans : \A w \in DOMAIN scans[s].workers :
               scans[s].workers[w].phase \in {"fetch", "json", "resolved"} =>
                   (NoUrl(Bookmark(s, w))
                        <=> scans[s].workers[w].phase = "resolved")
           /\ \A c \in DOMAIN checks :
               checks[c].from # <<>> =>
                   ~NoUrl(BookmarkOf(checks[c].from[1].id))
           /\ \A i \in DOMAIN scanResultsRef :
               NoUrl(BookmarkOf(scanResultsRef[i].id)) =>
                   scanResultsRef[i] =
                       ErrorResult(BookmarkOf(scanResultsRef[i].id),
                                   MissingUrl))
    /\ [][\A s \in DOMAIN scans : \A w \in DOMAIN scans[s].workers :
             (scans[s].workers[w].phase = "resolved" /\ WorkerResolved(s, w)) =>
                /\ scanResultsRef' =
                       Append(scanResultsRef,
                              ErrorResult(Bookmark(s, w), MissingUrl))
                /\ scanStatsRef' =
                       [scanStatsRef EXCEPT !.scanned = @ + 1, !.error = @ + 1]
                /\ checks' = checks]_vars

\* the results of a finished scan are 'Missing URL' for a bookmark without
\* url and ok for the other bookmark
C33_Witness ==
    /\ scanState = "done"
    /\ scanStats = [total |-> 2, scanned |-> 2, ok |-> 1, broken |-> 0,
                    error |-> 1]
    /\ \E i \in DOMAIN scanResults :
         /\ NoUrl(BookmarkOf(scanResults[i].id))
         /\ scanResults[i].error = MissingUrl

\* ------------------------------------------------------------------------
\* C34: the list of buildMergeSuggestions
\* ------------------------------------------------------------------------
InfoOf(folders, id) == folders[CHOOSE i \in DOMAIN folders : folders[i].id = id]

SortedByScore(list) ==
    \A i \in 1..(Len(list) - 1) : ~ScoreLess(list[i].score, list[i + 1].score)

SourcesScore(list, folders) ==
    \A i \in DOMAIN list :
        /\ list[i].sources # <<>>
        /\ \A j \in DOMAIN list[i].sources :
              ~ScoreLess(scoreSimilarity(InfoOf(folders, list[i].sources[j].id),
                                         InfoOf(folders, list[i].targetId)),
                         threshold)

WellFormedList(list, folders) ==
    /\ SortedByScore(list)
    /\ Len(list) <= 20
    /\ SourcesScore(list, folders)

\* C34: the list returned by buildMergeSuggestions, for the folders of the
\* tree and for the 2 * (20 + 1) folders of ManyFolders, is sorted by
\* descending score, holds at most 20 suggestions, has no suggestion
\* without sources, and every source scores at least 0.6 against the
\* target of its suggestion
C34_SuggestionList ==
    /\ \A list \in {mergeSuggestions}, folders \in {folderInfosOf(parsed)} :
          WellFormedList(list, folders)
    /\ \A list \in {ManySuggestions} : WellFormedList(list, ManyFolders)

\* the tree yields two suggestions of different scores, and ManyFolders
\* yields 20 suggestions that leave a pair of like-named folders out
C34_Witness ==
    /\ \E list \in {mergeSuggestions} :
          /\ Len(list) = 2
          /\ ScoreLess(list[2].score, list[1].score)
    /\ \E list \in {ManySuggestions} :
          /\ Len(list) = 20
          /\ ScoreLess(list[20].score, list[1].score)
          /\ \E i \in DOMAIN ManyFolders :
                /\ ~ScoreLess(scoreSimilarity(ManyFolders[i], ManyFolders[i + 1]),
                              threshold)
                /\ \A k \in DOMAIN list :
                      /\ list[k].targetId \notin {ManyFolders[i].id,
                                                  ManyFolders[i + 1].id}
                      /\ \A j \in DOMAIN list[k].sources :
                            list[k].sources[j].id \notin
                                {ManyFolders[i].id, ManyFolders[i + 1].id}

\* ------------------------------------------------------------------------
\* C35: suggestion ids and dismissal
\* ------------------------------------------------------------------------
SuggestionIds(list) == {list[i].id : i \in DOMAIN list}

\* the ids of a set in the order of the default sort of strings
SortedIds(ids) ==
    CHOOSE q \in [1..Cardinality(ids) -> ids] :
        \A i, j \in DOMAIN q : i < j => LexRank(q[i]) < LexRank(q[j])

\* the id is made of the target and the set of the sources alone, and no
\* two suggestions of a list have the same id
IdOfTargetAndSources(list) ==
    /\ \A i \in DOMAIN list :
          list[i].id =
              [targetId |-> list[i].targetId,
               sources |-> SortedIds({list[i].sources[j].id :
                                         j \in DOMAIN list[i].sources})]
    /\ \A i, j \in DOMAIN list : list[i].id = list[j].id => i = j

\* C35: the id of a suggestion is determined by its target and the set of
\* its sources, so the list computed again from the same tree has the same
\* ids; no visible suggestion has a dismissed id, a dismissed id stays
\* dismissed over every step after which a suggestion of that id is still
\* produced, and the dismissed ids are ids of the current suggestions
C35_DismissalPersists ==
    /\ [](\A list \in {mergeSuggestions} :
            /\ IdOfTargetAndSources(list)
            /\ dismissedSuggestions \subseteq SuggestionIds(list)
            /\ SuggestionIds(visibleSuggestions) =
                   SuggestionIds(list) \ dismissedSuggestions)
    /\ [][\A p \in {parsed'} :
            \A next \in {SuggestionIds(mergeSuggestionsOf(p))} :
              /\ p = parsed => next = SuggestionIds(mergeSuggestions)
              /\ dismissedSuggestions \cap next \subseteq dismissedSuggestions'
              /\ dismissedSuggestions' \subseteq next]_vars

\* of the file of two pairs one pair is dismissed and three folders are
\* left: the dismissal has persisted over a merge or a deletion
C35_Witness ==
    /\ dismissedSuggestions # {}
    /\ Cardinality(TreeFolders) = 3
    /\ \E folder \in TreeFolders : folder.title = TitleAa
    /\ Len(visibleSuggestions) < Len(mergeSuggestions)

\* ------------------------------------------------------------------------
\* C36: every scan terminates
\* ------------------------------------------------------------------------
\* a step of a scan: a continuation the event loop has queued, or the
\* settling of a fetch or of the reading of its body
ScanStep ==
    \E s \in DOMAIN scans :
        \/ StartScanSettled(s)
        \/ \E w \in DOMAIN scans[s].workers :
             \/ WorkerResolved(s, w)
             \/ FetchAborted(s, w)
             \/ FetchSettled(s, w)
             \/ JsonSettled(s, w)

\* the event loop runs what is queued and every request settles; nothing
\* is assumed about the user
RescanFairSpec == RescanInit /\ [][RescanNext]_vars /\ WF_vars(ScanStep)

Started(s) == s \in DOMAIN scans

\* the workers of the activation have ended and its code after Promise.all
\* has run
Completed(s) == s \in DOMAIN scans /\ scans[s].settled

\* C36: every started scan is eventually completed, all its workers ended,
\* and a scan state running is eventually followed by done, stopped or
\* error, whatever the user does meanwhile
C36_ScanTerminates ==
    /\ \A s \in 1..MaxScans : Started(s) ~> Completed(s)
    /\ (scanState = "running") ~> (scanState \in {"done", "stopped", "error"})

\* a scan that was cancelled and a later one that ran to its end have both
\* completed
C36_Witness ==
    /\ Len(scans) = 2
    /\ Completed(1) /\ scans[1].aborted
    /\ Completed(2) /\ ~scans[2].aborted
    /\ scanState = "done"

\* ------------------------------------------------------------------------
\* C37: the abort handle and the latest scan
\* ------------------------------------------------------------------------
\* the activation has a worker that has not ended
HasActiveWorker(s) ==
    /\ ~scans[s].settled
    /\ \E w \in DOMAIN scans[s].workers : scans[s].workers[w].phase # "ended"

\* the most recently started scan has an active worker and its controller
\* is not aborted
LatestRuns ==
    /\ scans # <<>>
    /\ HasActiveWorker(Len(scans))
    /\ ~scans[Len(scans)].aborted

\* C37: while the most recently started scan has an active worker and is
\* not yet cancelled, scanAbortRef is its controller, so that stopScan
\* aborts it; and the completion of an earlier, cancelled scan leaves
\* scanAbortRef as it is
C37_HandleOfLatest ==
    /\ [](LatestRuns => scanAbortRef = Len(scans))
    /\ [][LatestRuns /\ StopScan => scans'[Len(scans)].aborted]_vars
    /\ [][\A s \in DOMAIN scans :
             s < Len(scans) /\ scans[s].aborted /\ StartScanSettled(s)
                 => scanAbortRef' = scanAbortRef]_vars

\* ------------------------------------------------------------------------
\* C38: the scan state and the latest scan
\* ------------------------------------------------------------------------
\* C38: the start of a scan publishes running; the state stays running
\* over every step other than stopScan after which the most recently
\* started scan still has an active worker and is not cancelled; and the
\* completion of an earlier, cancelled scan leaves the state as it is
C38_StateOfLatest ==
    /\ [][Len(scans') > Len(scans) => scanState' = "running"]_vars
    /\ [][/\ LatestRuns
           /\ scanState = "running"
           /\ LatestRuns'
           /\ Len(scans') = Len(scans)
           /\ ~StopScan
           => scanState' = "running"]_vars
    /\ [][\A s \in DOMAIN scans :
             s < Len(scans) /\ scans[s].aborted /\ StartScanSettled(s)
                 => scanState' = scanState]_vars

\* ------------------------------------------------------------------------
\* C39: a folder is used by one suggestion
\* ------------------------------------------------------------------------
\* the places where the list uses the id: <<i, 0>> as the target of the
\* i-th suggestion, <<i, j>> as its j-th source
UsesOf(list, id) ==
    {<<i, 0>> : i \in {k \in DOMAIN list : list[k].targetId = id}}
    \cup UNION {{<<i, j>> : j \in {k \in DOMAIN list[i].sources :
                                      list[i].sources[k].id = id}} :
                   i \in DOMAIN list}

FolderIdsOf(p) ==
    IF p = <<>> THEN {}
    ELSE {n.id : n \in {m \in NodesOf(p[1].root.children) : m.type = "folder"}}

SuggestionOf(item) ==
    [targetId |-> item.targetId,
     sources |-> [j \in DOMAIN item.sources |-> item.sources[j].id]]

\* C39: no folder id is used twice in the list of buildMergeSuggestions,
\* as a target or as a source, and when a listed suggestion is accepted
\* the targets of the other listed suggestions are folders of the tree
\* afterwards
C39_FolderUsedOnce ==
    /\ [](\A list \in {mergeSuggestions} :
            \A id \in FolderIdsOf(parsed) : Cardinality(UsesOf(list, id)) <= 1)
    /\ [][\A list \in {mergeSuggestions} :
            \A i \in DOMAIN list :
              AcceptSuggestion(SuggestionOf(list[i]))
                => \A p \in {parsed'} :
                     \A j \in DOMAIN list \ {i} :
                       list[j].targetId \in FolderIdsOf(p)]_vars

\* the folder "aa" holding "bb cc" has been merged into the other "aa",
\* and the "bb cc" it held is still the target of a suggestion
C39_Witness ==
    \E folder \in TreeFolders :
        /\ folder.title = TitleAa
        /\ Len(folder.children) = 3
        /\ folder.children[3].type = "folder"
        /\ folder.children[3].title = TitleBbCc
        /\ Len(mergeSuggestions) = 1
        /\ mergeSuggestions[1].targetId = folder.children[3].id

\* ------------------------------------------------------------------------
\* C40: move and merge conserve the content
\* ------------------------------------------------------------------------
BookmarkIdsIn(root) ==
    {n.id : n \in {m \in NodesOf(root.children) : m.type = "bookmark"}}

FolderIdsIn(root) ==
    {n.id : n \in {m \in NodesOf(root.children) : m.type = "folder"}}

\* the same ids, each as often as before
SameNodes(before, after) ==
    /\ BookmarkIdsIn(after) = BookmarkIdsIn(before)
    /\ FolderIdsIn(after) = FolderIdsIn(before)
    /\ Len(IdSeq(after.children)) = Len(IdSeq(before.children))

\* the sources a merge into targetId takes out of the tree: the folders
\* other than the target and not above it, if the target is in the tree
MergedSources(root, sourceIds, targetId) ==
    {f.id : f \in {n \in NodesOf(root.children) :
                      /\ n.type = "folder"
                      /\ Includes(sourceIds, n.id)
                      /\ n.id # targetId
                      /\ targetId \notin DescendantIds(n)
                      /\ targetId \in FolderIdsIn(root) \cup {"root"}}}

Merged(before, sourceIds, targetId, after) ==
    /\ BookmarkIdsIn(after) = BookmarkIdsIn(before)
    /\ FolderIdsIn(after) =
           FolderIdsIn(before) \ MergedSources(before, sourceIds, targetId)
    /\ Len(IdSeq(after.children)) =
           Len(IdSeq(before.children))
           - Cardinality(MergedSources(before, sourceIds, targetId))

\* a node and a folder id that are not in the tree
MissingId == "none"
MissingNodes ==
    {[id |-> MissingId, type |-> "folder", title |-> <<>>, children |-> <<>>],
     [id |-> MissingId, type |-> "bookmark", title |-> <<>>, url |-> EmptyUrl]}

\* C40: the tree moveNode publishes has the nodes of the tree before it,
\* and the tree acceptSuggestion publishes, the result of
\* mergeFoldersIntoTarget, has its bookmarks and its folders less exactly
\* the merged sources; with a target that is not in the tree neither loses
\* a node (a call that publishes no tree loses nothing)
C40_ContentConserved ==
    parsed # <<>> =>
        /\ \A sourceId \in TreeIds \cup {"root"} :
              \A target \in TreeNodes \cup MissingNodes :
                \A position \in DropPositions :
                  \A next \in {moveNode(sourceId, target, position)} :
                    next # <<>> => SameNodes(parsed[1].root, next[1].root)
        /\ \A targetId \in FolderIdsIn(parsed[1].root) \cup {"root", MissingId} :
              \A sourceIds \in SourceLists :
                Merged(parsed[1].root, sourceIds, targetId,
                       mergeFoldersIntoTarget(parsed[1].root, sourceIds,
                                              targetId))

\* a reordered document with a folder that holds a bookmark and another
\* folder: the merge of the first into the second leaves one folder and
\* the bookmark, and its move into the second leaves all three nodes
C40_Witness ==
    /\ parsed # <<>>
    /\ ~InImportOrder(IdSeq(parsed[1].root.children))
    /\ \E f, h \in TreeFolders :
          /\ f.id # h.id
          /\ h.id \notin DescendantIds(f)
          /\ BookmarkIdsIn(f) # {}
          /\ LET merged == mergeFoldersIntoTarget(parsed[1].root, <<f.id>>, h.id)
                 moved == moveNode(f.id, h, "inside")
             IN  /\ FolderIdsIn(merged) = FolderIdsIn(parsed[1].root) \ {f.id}
                 /\ BookmarkIdsIn(merged) = BookmarkIdsIn(f)
                 /\ moved # <<>>
                 /\ moved[1].reset

====
